---- MODULE Spec2Model ----
(***************************************************************************)
(* Zathras post-processing: the document model of schema.py                *)
(* (ZathrasDocument, Run, TimeSeriesPoint), its serialisation, the content *)
(* hash that gives a document its identity, the summary / timeseries       *)
(* split, and the assignment of document_id by the processors.             *)
(*                                                                         *)
(* Python values are records tagged by their type in field t; a dict is    *)
(* its sequence of <<key, value>> items in insertion order, keyed by       *)
(* strings; where the code inspects a key character by character (metric   *)
(* names, sequence keys) Chars spells the key out as a tuple of            *)
(* characters.                                                             *)
(***************************************************************************)
EXTENDS Integers, Sequences, FiniteSets, TLC

\* ------------------------------------------------------------------ bounds
\* distinct instants a timestamp field may name
MaxTime == 2
\* numeric metric values are drawn from 1..MaxValue
MaxValue == 2
\* runs of one document
MaxRuns == 2
\* timeseries points of one run
MaxPoints == 2
\* largest max_retries an exporter is constructed with
MaxRetries == 3
\* max_retries when the constructor is not given one
DefaultMaxRetries == 3

\* ----------------------------------------------------------- Python values
None_ == [t |-> "None"]
PyInt(n) == [t |-> "int", v |-> n]
PyFloat(n) == [t |-> "float", v |-> n]
PyBool(b) == [t |-> "bool", v |-> b]
PyStr(s) == [t |-> "str", v |-> s]
\* an ISO-8601 timestamp string naming instant n
Timestamp(n) == [t |-> "timestamp", v |-> n]
Dict(items) == [t |-> "dict", items |-> items]
EmptyDict == Dict(<<>>)

IsNone(x) == x.t = "None"
IsDict(x) == x.t = "dict"
\* isinstance(v, (int, float)); bool is a subclass of int
IsNumeric(x) == x.t \in {"int", "float", "bool"}
\* the number a numeric value stands for (True is 1, False is 0)
NumberOf(x) == IF x.t = "bool" THEN (IF x.v THEN 1 ELSE 0) ELSE x.v

\* bool(x): the truth value `if x:` tests
Truthy(x) ==
    CASE x.t = "None" -> FALSE
      [] x.t = "dict" -> x.items # <<>>
      [] x.t = "str" -> x.v # ""
      [] x.t = "bool" -> x.v
      [] x.t \in {"int", "float"} -> x.v # 0
      [] OTHER -> TRUE

\* ------------------------------------------------------------------- dicts
Range(s) == {s[i] : i \in DOMAIN s}
DictKeys(d) == {d.items[i][1] : i \in DOMAIN d.items}
DictHas(d, k) == \E i \in DOMAIN d.items : d.items[i][1] = k
DictGet(d, k) == (CHOOSE p \in Range(d.items) : p[1] = k)[2]
\* d.get(k, default)
DictGetOr(d, k, default) == IF DictHas(d, k) THEN DictGet(d, k) ELSE default
\* {kk: vv for kk, vv in d.items() if kk != k}, also `del d[k]` and d.pop(k, None)
DictWithout(d, k) == Dict(SelectSeq(d.items, LAMBDA p : p[1] # k))
\* d[k] = v on an existing key keeps its place, on a new key appends
DictSet(d, k, v) ==
    IF DictHas(d, k)
    THEN Dict([i \in DOMAIN d.items |->
                 IF d.items[i][1] = k THEN <<k, v>> ELSE d.items[i]])
    ELSE Dict(Append(d.items, <<k, v>>))
\* {k: v for k, v in asdict(obj).items() if v is not None}
NotNoneItems(obj, fields) ==
    Dict(SelectSeq([i \in DOMAIN fields |-> <<fields[i], obj[fields[i]]>>],
                   LAMBDA p : ~IsNone(p[2])))
\* one optional item of a dict under construction: `if cond: result[k] = v`
Opt(cond, k, v) == IF cond THEN << <<k, v>> >> ELSE <<>>

\* ------------------------------------------------------------ schema.py
MetadataFields ==
    <<"document_id", "document_type", "zathras_version", "test_timestamp",
      "processing_timestamp", "collection_timestamp", "os_vendor",
      "cloud_provider", "instance_type", "iteration", "scenario_name">>
Metadata_to_dict(m) == NotNoneItems(m, MetadataFields)

TestInfoFields == <<"name", "version", "wrapper_version", "description", "url">>
TestInfo_to_dict(x) == NotNoneItems(x, TestInfoFields)

OperatingSystemInfoFields ==
    <<"distribution", "version", "kernel_version", "hostname">>
OperatingSystemInfo_to_dict(x) == NotNoneItems(x, OperatingSystemInfoFields)

\* hardware and configuration are carried as already-serialised dicts (or None)
SystemUnderTest_to_dict(s) ==
    Dict(Opt(Truthy(s.hardware), "hardware", s.hardware)
         \o Opt(Truthy(s.operating_system), "operating_system",
                OperatingSystemInfo_to_dict(s.operating_system))
         \o Opt(Truthy(s.configuration), "configuration", s.configuration))

TestConfigurationFields ==
    <<"iterations_requested", "parameters", "environment", "tuning">>
TestConfiguration_to_dict(x) == NotNoneItems(x, TestConfigurationFields)

PrimaryMetricFields == <<"name", "value", "unit">>
\* asdict(self): every field, None or not
PrimaryMetric_to_dict(x) ==
    Dict([i \in DOMAIN PrimaryMetricFields |->
            <<PrimaryMetricFields[i], x[PrimaryMetricFields[i]]>>])

TimeSeriesPoint_to_dict(p) ==
    Dict(<< <<"timestamp", p.timestamp>>, <<"metrics", p.metrics>> >>)

TimeSeriesSummaryFields ==
    <<"count", "mean", "median", "min", "max", "stddev", "first_value",
      "last_value">>
TimeSeriesSummary_to_dict(x) == NotNoneItems(x, TimeSeriesSummaryFields)

RuntimeInfoFields ==
    <<"start_time", "end_time", "duration_seconds", "command",
      "working_directory", "user">>
RuntimeInfo_to_dict(x) == NotNoneItems(x, RuntimeInfoFields)

PointToDict(point) ==
    IF point.t = "TimeSeriesPoint" THEN TimeSeriesPoint_to_dict(point) ELSE point

\* Run.to_dict() had it lost the `if self.metrics:` branch
Run_to_dict_without_metrics(run) ==
    Dict(<< <<"run_number", run.run_number>>, <<"status", run.status>> >>
         \o Opt(Truthy(run.start_time), "start_time", run.start_time)
         \o Opt(Truthy(run.end_time), "end_time", run.end_time)
         \o Opt(~IsNone(run.duration_seconds), "duration_seconds",
                run.duration_seconds)
         \o Opt(Truthy(run.configuration), "configuration", run.configuration)
         \o Opt(Truthy(run.timeseries_summary), "timeseries_summary",
                TimeSeriesSummary_to_dict(run.timeseries_summary))
         \o Opt(Truthy(run.timeseries), "timeseries",
                Dict([i \in DOMAIN run.timeseries.items |->
                        <<run.timeseries.items[i][1],
                          PointToDict(run.timeseries.items[i][2])>>]))
         \o Opt(Truthy(run.validation), "validation", run.validation))

Run_to_dict(run) ==
    Dict(<< <<"run_number", run.run_number>>, <<"status", run.status>> >>
         \o Opt(Truthy(run.start_time), "start_time", run.start_time)
         \o Opt(Truthy(run.end_time), "end_time", run.end_time)
         \o Opt(~IsNone(run.duration_seconds), "duration_seconds",
                run.duration_seconds)
         \o Opt(Truthy(run.configuration), "configuration", run.configuration)
         \o Opt(Truthy(run.metrics), "metrics", run.metrics)
         \o Opt(Truthy(run.timeseries_summary), "timeseries_summary",
                TimeSeriesSummary_to_dict(run.timeseries_summary))
         \o Opt(Truthy(run.timeseries), "timeseries",
                Dict([i \in DOMAIN run.timeseries.items |->
                        <<run.timeseries.items[i][1],
                          PointToDict(run.timeseries.items[i][2])>>]))
         \o Opt(Truthy(run.validation), "validation", run.validation))

\* run.to_dict() if isinstance(run, Run) else run: a plain dict goes into the
\* result as the very object the document holds
RunToDict(run) == IF run.t = "Run" THEN Run_to_dict(run) ELSE run

Results_to_dict(r) ==
    Dict(<< <<"status", r.status>> >>
         \o Opt(~IsNone(r.execution_time_seconds), "execution_time_seconds",
                r.execution_time_seconds)
         \o Opt(~IsNone(r.total_runs), "total_runs", r.total_runs)
         \o Opt(Truthy(r.primary_metric), "primary_metric",
                PrimaryMetric_to_dict(r.primary_metric))
         \o Opt(Truthy(r.overall_statistics), "overall_statistics",
                r.overall_statistics)
         \o Opt(Truthy(r.runs), "runs",
                Dict([i \in DOMAIN r.runs.items |->
                        <<r.runs.items[i][1], RunToDict(r.runs.items[i][2])>>])))

ZathrasDocument_to_dict(d) ==
    Dict(<< <<"metadata", Metadata_to_dict(d.metadata)>>,
            <<"test", TestInfo_to_dict(d.test)>>,
            <<"system_under_test", SystemUnderTest_to_dict(d.system_under_test)>>,
            <<"test_configuration", TestConfiguration_to_dict(d.test_configuration)>>,
            <<"results", Results_to_dict(d.results)>> >>
         \o Opt(Truthy(d.runtime_info), "runtime_info",
                RuntimeInfo_to_dict(d.runtime_info)))

\* the del of to_dict_summary_only() had it never run
StripNothing(run_data) == run_data
\* the del of to_dict_summary_only() had it named 'timeseries_summary'
StripTimeseriesSummary(run_data) == DictWithout(run_data, "timeseries_summary")

\* ---- to_dict_summary_only: the summary projection, and what it does to self
\* `if 'timeseries' in run_data: del run_data['timeseries']`
StripTimeseries(run_data) == DictWithout(run_data, "timeseries")

\* the dictionary to_dict_summary_only() returns
to_dict_summary_only(d) ==
    LET result == ZathrasDocument_to_dict(d)
        results == DictGet(result, "results")
        runs == DictGet(results, "runs")
    IN  IF DictHas(result, "results") /\ DictHas(results, "runs")
        THEN DictSet(result, "results",
                     DictSet(results, "runs",
                             Dict([i \in DOMAIN runs.items |->
                                     <<runs.items[i][1],
                                       StripTimeseries(runs.items[i][2])>>])))
        ELSE result

\* the document after to_dict_summary_only() ran on it: Results.to_dict() put
\* every plain-dict run into `result` by reference, so the del above removes
\* the key from the document's own run; a Run object was copied by
\* Run.to_dict() and is untouched
RunAfterSummary(run) == IF run.t = "Run" THEN run ELSE StripTimeseries(run)

DocAfterSummary(d) ==
    IF Truthy(d.results.runs)
    THEN [d EXCEPT !.results.runs =
            Dict([i \in DOMAIN d.results.runs.items |->
                    <<d.results.runs.items[i][1],
                      RunAfterSummary(d.results.runs.items[i][2])>>])]
    ELSE d

\* ---- calculate_content_hash
\* json.dumps(x, sort_keys=True, separators=(',', ':')): the text is decided by
\* the set of members of every object (their order is sorted away) and by the
\* rendering of every scalar: 1, 1.0 and true are three different texts
RECURSIVE JsonCanonical(_)
JsonCanonical(x) ==
    CASE x.t = "dict" ->
           [j |-> "object",
            members |-> [k \in DictKeys(x) |-> JsonCanonical(DictGet(x, k))]]
      [] x.t = "None" -> [j |-> "null"]
      [] x.t = "bool" -> [j |-> IF x.v THEN "true" ELSE "false"]
      [] x.t = "int" -> [j |-> "integer", digits |-> x.v]
      [] x.t = "float" -> [j |-> "float", repr |-> x.v]
      [] OTHER -> [j |-> "string", of |-> x]

\* hashlib.sha256(text).hexdigest(), taken as collision-free: the digest
\* stands for the text it was computed from
Sha256HexDigest(text) == [t |-> "sha256", of |-> text]
\* content_hash[:16], taken as collision-free over the documents of the model
Prefix16(digest) == [t |-> "hex16", of |-> digest.of]

\* calculate_content_hash() had it not popped test_timestamp
HashedDictWithTestTimestamp(d, exclude_processing_timestamp) ==
    LET doc_dict == to_dict_summary_only(d)
        metadata == DictGet(doc_dict, "metadata")
    IN  IF exclude_processing_timestamp /\ DictHas(doc_dict, "metadata")
        THEN DictSet(doc_dict, "metadata",
                 DictWithout(DictWithout(DictWithout(metadata,
                     "processing_timestamp"), "collection_timestamp"),
                     "document_id"))
        ELSE doc_dict
\* calculate_content_hash() had it not popped document_id
HashedDictWithDocumentId(d, exclude_processing_timestamp) ==
    LET doc_dict == to_dict_summary_only(d)
        metadata == DictGet(doc_dict, "metadata")
    IN  IF exclude_processing_timestamp /\ DictHas(doc_dict, "metadata")
        THEN DictSet(doc_dict, "metadata",
                 DictWithout(DictWithout(DictWithout(metadata,
                     "processing_timestamp"), "test_timestamp"),
                     "collection_timestamp"))
        ELSE doc_dict

\* the dictionary that is serialised and digested
HashedDict(d, exclude_processing_timestamp) ==
    LET doc_dict == to_dict_summary_only(d)
        metadata == DictGet(doc_dict, "metadata")
    IN  IF exclude_processing_timestamp /\ DictHas(doc_dict, "metadata")
        THEN DictSet(doc_dict, "metadata",
                 DictWithout(DictWithout(DictWithout(DictWithout(metadata,
                     "processing_timestamp"), "test_timestamp"),
                     "collection_timestamp"), "document_id"))
        ELSE doc_dict

CanonicalSummary(d, exclude_processing_timestamp) ==
    JsonCanonical(HashedDict(d, exclude_processing_timestamp))

calculate_content_hash(d, exclude_processing_timestamp) ==
    Sha256HexDigest(CanonicalSummary(d, exclude_processing_timestamp))

\* ---- strings the code reads character by character
\* the characters of a key
Chars(s) ==
    CASE s = "" -> <<>>
      [] s = "run_" -> <<"r", "u", "n", "_">>
      [] s = "sequence_" -> <<"s", "e", "q", "u", "e", "n", "c", "e", "_">>
      [] s = "seconds" -> <<"s", "e", "c", "o", "n", "d", "s">>
      [] s = "_sec" -> <<"_", "s", "e", "c">>
      [] s = "bops" -> <<"b", "o", "p", "s">>
      [] s = "mb_per_sec" -> <<"m", "b", "_", "p", "e", "r", "_", "s", "e", "c">>
      [] s = "bandwidth" -> <<"b", "a", "n", "d", "w", "i", "d", "t", "h">>
      [] s = "detail" -> <<"d", "e", "t", "a", "i", "l">>
      [] s = "description" -> <<"d", "e", "s", "c", "r", "i", "p", "t", "i", "o", "n">>
      [] s = "score" -> <<"s", "c", "o", "r", "e">>
      [] s = "mean_seconds" -> <<"m", "e", "a", "n", "_", "s", "e", "c", "o", "n", "d", "s">>
      [] s = "ops_per_sec" -> <<"o", "p", "s", "_", "p", "e", "r", "_", "s", "e", "c">>
      [] s = "throughput_bops" -> <<"t", "h", "r", "o", "u", "g", "h", "p", "u", "t", "_", "b", "o", "p", "s">>
      [] s = "benchmark_name" -> <<"b", "e", "n", "c", "h", "m", "a", "r", "k", "_", "n", "a", "m", "e">>
      [] s = "sequence_0" -> <<"s", "e", "q", "u", "e", "n", "c", "e", "_", "0">>
      [] s = "sequence_1" -> <<"s", "e", "q", "u", "e", "n", "c", "e", "_", "1">>
      [] s = "sequence_2" -> <<"s", "e", "q", "u", "e", "n", "c", "e", "_", "2">>
      [] s = "sequence_3" -> <<"s", "e", "q", "u", "e", "n", "c", "e", "_", "3">>
      [] s = "seq_0" -> <<"s", "e", "q", "_", "0">>
      [] s = "sequence_x" -> <<"s", "e", "q", "u", "e", "n", "c", "e", "_", "x">>
      [] s = "sequence" -> <<"s", "e", "q", "u", "e", "n", "c", "e">>
      [] s = "sequence_1_2" -> <<"s", "e", "q", "u", "e", "n", "c", "e", "_", "1", "_", "2">>
      [] s = "sequence_0_sequence_1" -> <<"s", "e", "q", "u", "e", "n", "c", "e", "_", "0", "_", "s", "e", "q", "u", "e", "n", "c", "e", "_", "1">>
      [] s = "run_1_sequence_0" -> <<"r", "u", "n", "_", "1", "_", "s", "e", "q", "u", "e", "n", "c", "e", "_", "0">>
      [] s = "sequence_" -> <<"s", "e", "q", "u", "e", "n", "c", "e", "_">>
      [] s = "run_abc" -> <<"r", "u", "n", "_", "a", "b", "c">>
      [] s = "1" -> <<"1">>
      [] s = "coremark" -> <<"c", "o", "r", "e", "m", "a", "r", "k">>
      [] s = "pyperf" -> <<"p", "y", "p", "e", "r", "f">>
      [] s = "nbody" -> <<"n", "b", "o", "d", "y">>
      [] s = "run_0" -> <<"r", "u", "n", "_", "0">>
      [] s = "run_1" -> <<"r", "u", "n", "_", "1">>
      [] s = "run_2" -> <<"r", "u", "n", "_", "2">>
      [] s = "run_3" -> <<"r", "u", "n", "_", "3">>

\* `sub in s`
Contains(s, sub) ==
    \E i \in 0..(Len(s) - Len(sub)) : SubSeq(s, i + 1, i + Len(sub)) = sub

\* s.split(sep) for a one-character sep
RECURSIVE Split(_, _)
Split(s, sep) ==
    IF \A i \in DOMAIN s : s[i] # sep
    THEN <<s>>
    ELSE LET i == CHOOSE n \in DOMAIN s :
                      s[n] = sep /\ \A m \in 1..(n - 1) : s[m] # sep
         IN  <<SubSeq(s, 1, i - 1)>> \o Split(SubSeq(s, i + 1, Len(s)), sep)

DigitValue(c) ==
    CASE c = "0" -> 0 [] c = "1" -> 1 [] c = "2" -> 2 [] c = "3" -> 3
      [] c = "4" -> 4 [] c = "5" -> 5 [] c = "6" -> 6 [] c = "7" -> 7
      [] c = "8" -> 8 [] c = "9" -> 9
IsDigit(c) == c \in {"0", "1", "2", "3", "4", "5", "6", "7", "8", "9"}

RECURSIVE DecimalValue(_)
DecimalValue(s) ==
    IF s = <<>> THEN 0
    ELSE 10 * DecimalValue(SubSeq(s, 1, Len(s) - 1)) + DigitValue(s[Len(s)])

\* int(s) on a string of the model's alphabet (letters, digits, '_'): a
\* non-empty run of digits, anything else raises ValueError
IntParses(s) == s # <<>> /\ \A i \in DOMAIN s : IsDigit(s[i])

\* int(seq_key.split('_')[1]): the sequence number, or the exception raised
ParseSequence(seq_key) ==
    LET parts == Split(Chars(seq_key), "_")
    IN  IF Len(parts) < 2 THEN [raised |-> "IndexError"]
        ELSE IF ~IntParses(parts[2]) THEN [raised |-> "ValueError"]
        ELSE [raised |-> "no", sequence |-> DecimalValue(parts[2])]

\* ---- extract_timeseries_documents
NoCue == "no cue"
\* the if / elif chain applied to one metric name
UnitOfName(metric_name) ==
    LET name == Chars(metric_name)
    IN  IF Contains(name, Chars("seconds")) \/ Contains(name, Chars("_sec"))
        THEN "seconds"
        ELSE IF Contains(name, Chars("bops")) THEN "bops"
        ELSE IF Contains(name, Chars("mb_per_sec"))
                \/ Contains(name, Chars("bandwidth")) THEN "MB/s"
        ELSE NoCue

\* the loop over run.metrics.keys() had it no break: the last name that
\* carries a cue decides
InferUnitWithoutBreak(metrics) ==
    IF ~Truthy(metrics) THEN "unknown"
    ELSE LET hits == {i \in DOMAIN metrics.items :
                        UnitOfName(metrics.items[i][1]) # NoCue}
         IN  IF hits = {} THEN "unknown"
             ELSE LET last == CHOOSE i \in hits : \A h \in hits : i >= h
                  IN  UnitOfName(metrics.items[last][1])

\* the loop over run.metrics.keys(): it stops at the first name that carries a cue
InferUnit(metrics) ==
    IF ~Truthy(metrics) THEN "unknown"
    ELSE LET hits == {i \in DOMAIN metrics.items :
                        UnitOfName(metrics.items[i][1]) # NoCue}
         IN  IF hits = {} THEN "unknown"
             ELSE LET first == CHOOSE i \in hits : \A h \in hits : i <= h
                  IN  UnitOfName(metrics.items[first][1])

\* lines 462-482 had the 'value' branch come before the 'throughput_bops' one
SelectValuePreferringValue(metrics) ==
    LET named(k) == [value |-> DictGet(metrics, k),
                     point_metrics |-> DictWithout(metrics, k)]
        numeric == {i \in DOMAIN metrics.items : IsNumeric(metrics.items[i][2])}
    IN  IF ~Truthy(metrics) THEN [value |-> None_, point_metrics |-> EmptyDict]
        ELSE IF DictHas(metrics, "value_seconds") THEN named("value_seconds")
        ELSE IF DictHas(metrics, "value") THEN named("value")
        ELSE IF DictHas(metrics, "throughput_bops") THEN named("throughput_bops")
        ELSE IF numeric = {} THEN [value |-> None_, point_metrics |-> EmptyDict]
        ELSE LET first == CHOOSE i \in numeric : \A n \in numeric : i <= n
             IN  named(metrics.items[first][1])

\* value and point_metrics as lines 462-482 leave them
SelectValue(metrics) ==
    LET named(k) == [value |-> DictGet(metrics, k),
                     point_metrics |-> DictWithout(metrics, k)]
        numeric == {i \in DOMAIN metrics.items : IsNumeric(metrics.items[i][2])}
    IN  IF ~Truthy(metrics) THEN [value |-> None_, point_metrics |-> EmptyDict]
        ELSE IF DictHas(metrics, "value_seconds") THEN named("value_seconds")
        ELSE IF DictHas(metrics, "throughput_bops") THEN named("throughput_bops")
        ELSE IF DictHas(metrics, "value") THEN named("value")
        ELSE IF numeric = {} THEN [value |-> None_, point_metrics |-> EmptyDict]
        ELSE LET first == CHOOSE i \in numeric : \A n \in numeric : i <= n
             IN  named(metrics.items[first][1])

\* a text as the sequence of its elements: single characters, and the parts of
\* a document ID that hold no '_' of their own taken whole
Literal(cs) == [i \in DOMAIN cs |-> [c |-> cs[i]]]
\* the text of metadata.document_id: the placeholder of build_metadata, the ID
\* process() assigned, or the one process_multiple() assigned
DocumentIdText(document_id) ==
    CASE document_id.t = "str" -> Literal(Chars(document_id.v))
      [] document_id.t = "placeholder_id" ->
           Literal(Chars(document_id.test_name) \o <<"_">>)
           \o <<[system_and_time |-> document_id.at]>>
      [] document_id.t = "document_id" ->
           Literal(Chars(document_id.test_name) \o <<"_">>)
           \o <<[hex16 |-> document_id.hash_prefix]>>
      [] document_id.t = "pyperf_document_id" ->
           Literal(Chars("pyperf") \o <<"_">>)
           \o <<[benchmark_name |-> document_id.benchmark_name]>>
           \o Literal(<<"_">>) \o <<[hex16 |-> document_id.hash_prefix]>>

\* f"{self.metadata.document_id}_{run_key}_{seq_key}"
FormatTimeseriesId(document_id, run_key, seq_key) ==
    [t |-> "timeseries_id",
     text |-> DocumentIdText(document_id)
              \o Literal(<<"_">> \o Chars(run_key) \o <<"_">> \o Chars(seq_key))]

TimeSeriesDocument(d, run_key, run, seq_key, ts_point, sequence, unit, choice) ==
    [metadata |-> [document_id |-> d.metadata.document_id,
                   timeseries_id |-> FormatTimeseriesId(d.metadata.document_id,
                                                        run_key, seq_key),
                   timestamp |-> ts_point.timestamp,
                   sequence |-> sequence,
                   test_timestamp |-> d.metadata.test_timestamp,
                   processing_timestamp |-> d.metadata.processing_timestamp,
                   os_vendor |-> d.metadata.os_vendor,
                   cloud_provider |-> d.metadata.cloud_provider,
                   instance_type |-> d.metadata.instance_type,
                   scenario_name |-> d.metadata.scenario_name,
                   iteration |-> d.metadata.iteration],
     test |-> d.test,
     system_under_test |-> d.system_under_test,
     results |-> [run |-> [run_key |-> run_key,
                           run_number |-> run.run_number,
                           status |-> run.status,
                           configuration |-> run.configuration,
                           benchmark_name |->
                               IF Truthy(run.metrics)
                               THEN DictGetOr(run.metrics, "benchmark_name", None_)
                               ELSE None_,
                           benchmark_description |->
                               IF Truthy(run.metrics)
                               THEN DictGetOr(run.metrics, "description", None_)
                               ELSE None_],
                  value |-> choice.value,
                  unit |-> unit,
                  point_metrics |-> IF Truthy(choice.point_metrics)
                                    THEN choice.point_metrics ELSE None_]]

Returned(docs) == [raised |-> "no", docs |-> docs]
Raised(exception) == [raised |-> exception, docs |-> <<>>]

\* the loop over run.timeseries.items(), from item i on
RECURSIVE ExtractPoints(_, _, _, _, _)
ExtractPoints(d, run_key, run, unit, i) ==
    IF i > Len(run.timeseries.items) THEN Returned(<<>>)
    ELSE LET seq_key == run.timeseries.items[i][1]
             ts_point == run.timeseries.items[i][2]
             parsed == ParseSequence(seq_key)
         IN  IF parsed.raised # "no" THEN Raised(parsed.raised)
             ELSE IF ts_point.t # "TimeSeriesPoint" THEN Raised("AttributeError")
             ELSE LET choice == SelectValue(ts_point.metrics)
                      rest == ExtractPoints(d, run_key, run, unit, i + 1)
                  IN  IF rest.raised # "no" THEN rest
                      ELSE IF IsNone(choice.value) THEN rest
                      ELSE Returned(<<TimeSeriesDocument(d, run_key, run, seq_key,
                                         ts_point, parsed.sequence, unit, choice)>>
                                    \o rest.docs)

\* the loop over self.results.runs.items(), from item i on
RECURSIVE ExtractRuns(_, _)
ExtractRuns(d, i) ==
    IF i > Len(d.results.runs.items) THEN Returned(<<>>)
    ELSE LET run_key == d.results.runs.items[i][1]
             run == d.results.runs.items[i][2]
         IN  IF run.t # "Run" THEN Raised("AttributeError")
             ELSE LET here == IF ~Truthy(run.timeseries) THEN Returned(<<>>)
                              ELSE ExtractPoints(d, run_key, run,
                                                 InferUnit(run.metrics), 1)
                      rest == ExtractRuns(d, i + 1)
                  IN  IF here.raised # "no" THEN here
                      ELSE IF rest.raised # "no" THEN rest
                      ELSE Returned(here.docs \o rest.docs)

extract_timeseries_documents(d) ==
    IF ~IsDict(d.results.runs) THEN Raised("AttributeError")
    ELSE ExtractRuns(d, 1)

\* ---- canonical key naming
DigitChar(n) == CASE n = 0 -> "0" [] n = 1 -> "1" [] n = 2 -> "2" [] n = 3 -> "3"
                  [] n = 4 -> "4" [] n = 5 -> "5" [] n = 6 -> "6" [] n = 7 -> "7"
                  [] n = 8 -> "8" [] n = 9 -> "9"
\* str(n) for n >= 0
RECURSIVE DecimalString(_)
DecimalString(n) ==
    IF n < 10 THEN <<DigitChar(n)>>
    ELSE DecimalString(n \div 10) \o <<DigitChar(n % 10)>>

\* the keys Chars spells out
KeyStrings ==
    {"run_0", "run_1", "run_2", "run_3", "sequence_0", "sequence_1",
     "sequence_2", "sequence_3", "seq_0", "sequence_x", "sequence",
     "sequence_1_2"}
\* the key whose characters are cs
KeyOfChars(cs) == CHOOSE k \in KeyStrings : Chars(k) = cs
\* f"run_{run_number}"
create_run_key(run_number) ==
    KeyOfChars(Chars("run_") \o DecimalString(run_number))
\* f"sequence_{sequence}"
create_sequence_key(sequence) ==
    KeyOfChars(Chars("sequence_") \o DecimalString(sequence))

\* ------------------------------------------------ documents as the processors
\* ------------------------------------------------ (and other producers) build them
Timestamps == {Timestamp(n) : n \in 1..MaxTime}
SeqsUpTo(S, n) == UNION {[1..k -> S] : k \in 0..n}

\* f"{test_name}_{system_name}_{processing_time...}", the temporary ID
PlaceholderId(test_name, processing_time) ==
    [t |-> "placeholder_id", test_name |-> test_name, at |-> processing_time]

build_metadata(test_name, processing_time, test_timestamp, os_vendor) ==
    [document_id |-> PlaceholderId(test_name, processing_time),
     document_type |-> PyStr("zathras_test_result"),
     zathras_version |-> PyStr("1.0"),
     test_timestamp |-> test_timestamp,
     processing_timestamp |-> processing_time,
     collection_timestamp |-> test_timestamp,
     os_vendor |-> os_vendor,
     cloud_provider |-> None_,
     instance_type |-> None_,
     iteration |-> None_,
     scenario_name |-> None_]

TestInfo(name) ==
    [name |-> PyStr(name), version |-> PyStr("1.0"), wrapper_version |-> None_,
     description |-> None_, url |-> None_]

OperatingSystemInfo(distribution) ==
    [t |-> "OperatingSystemInfo", distribution |-> distribution,
     version |-> None_, kernel_version |-> None_, hostname |-> None_]

SystemUnderTest(operating_system) ==
    [hardware |-> None_, operating_system |-> operating_system,
     configuration |-> None_]

TestConfiguration(iterations_requested) ==
    [iterations_requested |-> iterations_requested, parameters |-> None_,
     environment |-> None_, tuning |-> None_]

\* build_runtime_info: RuntimeInfo(command=command, user="root")
RuntimeInfo(command) ==
    [t |-> "RuntimeInfo", start_time |-> None_, end_time |-> None_,
     duration_seconds |-> None_, command |-> command,
     working_directory |-> None_, user |-> PyStr("root")]

TimeSeriesPoint(timestamp, metrics) ==
    [t |-> "TimeSeriesPoint", timestamp |-> timestamp, metrics |-> metrics]

TimeSeriesSummary(count) ==
    [t |-> "TimeSeriesSummary", count |-> PyInt(count), mean |-> None_,
     median |-> None_, min |-> None_, max |-> None_, stddev |-> None_,
     first_value |-> None_, last_value |-> None_]

Run(run_number, status, metrics, configuration, timeseries_summary, timeseries) ==
    [t |-> "Run", run_number |-> run_number, status |-> status,
     start_time |-> None_, end_time |-> None_, duration_seconds |-> None_,
     configuration |-> configuration, metrics |-> metrics,
     timeseries_summary |-> timeseries_summary, timeseries |-> timeseries,
     validation |-> None_]

Results(status, total_runs, primary_metric, runs) ==
    [status |-> status, execution_time_seconds |-> None_,
     total_runs |-> total_runs, primary_metric |-> primary_metric,
     overall_statistics |-> None_, runs |-> runs]

PrimaryMetric(name, value, unit) ==
    [t |-> "PrimaryMetric", name |-> name, value |-> value, unit |-> unit]

ZathrasDocument(metadata, test, sut, test_config, results, runtime_info) ==
    [metadata |-> metadata, test |-> test,
     system_under_test |-> sut,
     test_configuration |-> test_config, results |-> results,
     runtime_info |-> runtime_info]

\* a timeseries map with keys sequence_0, sequence_1, ... over the given
\* point metrics
TimeseriesOf(point_metrics) ==
    Dict([i \in DOMAIN point_metrics |->
            <<create_sequence_key(i - 1),
              TimeSeriesPoint(Timestamp(1), point_metrics[i])>>])

\* a run of the given shape: a Run object, or the same run as a plain dict
MakeRun(shape, n) ==
    LET run == Run(PyInt(n), PyStr("PASS"), shape.metrics, shape.configuration,
                   IF Truthy(shape.timeseries)
                   THEN TimeSeriesSummary(Len(shape.timeseries.items)) ELSE None_,
                   shape.timeseries)
    IN  IF shape.kind = "Run" THEN run ELSE Run_to_dict(run)

MakeRuns(shapes) ==
    Dict([i \in DOMAIN shapes |-> <<create_run_key(i), MakeRun(shapes[i], i)>>])

Shape(kind, metrics, configuration, timeseries) ==
    [kind |-> kind, metrics |-> metrics, configuration |-> configuration,
     timeseries |-> timeseries]

OnePoint == TimeseriesOf(<<Dict(<< <<"value", PyFloat(1)>> >>)>>)

\* runs whose summary content varies: metrics, configuration, kind
SummaryMetrics ==
    {Dict(<< <<"score", PyInt(v)>> >>) : v \in 1..MaxValue}
    \cup {Dict(<< <<"score", PyFloat(1)>> >>),
          Dict(<< <<"score", PyInt(1)>>,
                  <<"detail", Dict(<< <<"p95", PyInt(1)>> >>)>> >>),
          Dict(<< <<"benchmark_name", PyStr("nbody")>>,
                  <<"mean_seconds", PyFloat(1)>> >>)}
SummaryConfigurations ==
    {None_, Dict(<< <<"timeseries", PyInt(1)>> >>),
     Dict(<< <<"options", Dict(<< <<"timeseries", PyInt(1)>> >>)>> >>)}
SummaryShapes ==
    {Shape(k, m, None_, OnePoint) : k \in {"Run", "dict"}, m \in SummaryMetrics}
    \cup {Shape(k, Dict(<< <<"score", PyInt(1)>> >>), c, ts) :
            k \in {"Run", "dict"}, c \in SummaryConfigurations,
            ts \in {None_, OnePoint}}
\* the runs of the documents whose test name or timestamps vary
SmallShapes ==
    {Shape(k, m, None_, ts) :
        k \in {"Run", "dict"},
        m \in {Dict(<< <<"score", PyInt(1)>> >>),
               Dict(<< <<"benchmark_name", PyStr("nbody")>>,
                       <<"mean_seconds", PyFloat(1)>> >>)},
        ts \in {None_, OnePoint}}
SummaryExtraShapes ==
    {Shape("dict", Dict(<< <<"score", PyInt(1)>> >>), None_, OnePoint),
     Shape("Run", Dict(<< <<"score", PyInt(1)>> >>),
           Dict(<< <<"timeseries", PyInt(1)>> >>), OnePoint)}

\* runs whose metric names vary: one or two names in either order
RunMetricNames ==
    {"score", "mean_seconds", "ops_per_sec", "throughput_bops", "mb_per_sec",
     "bandwidth"}
NamedMetrics ==
    {None_, EmptyDict}
    \cup {Dict(<< <<a, PyFloat(1)>> >>) : a \in RunMetricNames}
    \cup UNION {{Dict(<< <<a, PyFloat(1)>>, <<b, PyFloat(1)>> >>) :
                    b \in RunMetricNames \ {a}} : a \in RunMetricNames}
UnitShapes == {Shape("Run", m, None_, OnePoint) : m \in NamedMetrics}

\* runs whose timeseries points vary
PointMetrics ==
    {EmptyDict,
     Dict(<< <<"value_seconds", PyFloat(1)>>, <<"samples", PyInt(2)>> >>),
     Dict(<< <<"samples", PyInt(2)>>, <<"value", PyFloat(1)>>,
             <<"throughput_bops", PyFloat(2)>> >>),
     Dict(<< <<"label", PyStr("warm")>>, <<"iops", PyInt(1)>>,
             <<"latency", PyFloat(2)>> >>),
     Dict(<< <<"label", PyStr("warm")>> >>),
     Dict(<< <<"value", None_>>, <<"iops", PyInt(1)>> >>)}
BadSequenceKeys == {"seq_0", "sequence_x", "sequence", "sequence_1_2"}
\* the metrics of the points after the first of a timeseries
LaterPointMetrics ==
    {Dict(<< <<"samples", PyInt(2)>>, <<"value", PyFloat(1)>>,
             <<"throughput_bops", PyFloat(2)>> >>),
     Dict(<< <<"label", PyStr("warm")>>, <<"iops", PyInt(1)>>,
             <<"latency", PyFloat(2)>> >>),
     Dict(<< <<"label", PyStr("warm")>> >>)}
PointTimeseries ==
    {TimeseriesOf(<<>>)}
    \cup {TimeseriesOf(<<first>> \o later) :
            first \in PointMetrics,
            later \in SeqsUpTo(LaterPointMetrics, MaxPoints - 1)}
    \cup {Dict(<< <<k, TimeSeriesPoint(Timestamp(1),
                                      Dict(<< <<"value", PyFloat(1)>> >>))>> >>) :
            k \in BadSequenceKeys}
PointShapes ==
    {Shape("Run", Dict(<< <<"mean_seconds", PyFloat(1)>> >>), None_, ts) :
        ts \in PointTimeseries}
\* runs under keys that start with 'run_' and 'sequence_' but are not of the
\* form create_run_key / create_sequence_key produce
AmbiguousRuns ==
    LET point == TimeSeriesPoint(Timestamp(1), Dict(<< <<"value", PyFloat(1)>> >>))
        run(n, seq_key) ==
            Run(PyInt(n), PyStr("PASS"), Dict(<< <<"score", PyInt(1)>> >>), None_,
                TimeSeriesSummary(1), Dict(<< <<seq_key, point>> >>))
    IN  {Dict(<< <<"run_1", run(1, a)>>, <<"run_1_sequence_0", run(2, b)>> >>) :
            a \in {"sequence_0_sequence_1", "sequence_0"},
            b \in {"sequence_1", "sequence_0"}}
\* runs under keys of any form, good and bad: a first run under any run key,
\* a second under run_2, each with one or two timeseries keys
SequenceKeyLists ==
    {<<"sequence_0">>, <<"seq_0", "sequence_">>, <<"sequence_1", "sequence_x">>}
KeyedRun(n, seq_keys) ==
    Run(PyInt(n), PyStr("PASS"), Dict(<< <<"score", PyInt(1)>> >>), None_,
        TimeSeriesSummary(Len(seq_keys)),
        Dict([i \in DOMAIN seq_keys |->
                <<seq_keys[i],
                  TimeSeriesPoint(Timestamp(1),
                                  Dict(<< <<"value", PyFloat(1)>> >>))>>]))
KeyedRuns ==
    {Dict(<< <<k, KeyedRun(1, a)>>, <<"run_2", KeyedRun(2, b)>> >>) :
        k \in {"run_1", "1", "run_abc"},
        a \in SequenceKeyLists, b \in SequenceKeyLists}
PointExtraShapes ==
    {Shape("Run", Dict(<< <<"score", PyInt(1)>> >>), None_, OnePoint)}

\* the runs maps of the documents of the model: a first run of any shape of a
\* family, then up to MaxRuns - 1 further runs
RunsOver(first, extra) ==
    {MakeRuns(<<f>> \o e) : f \in first, e \in SeqsUpTo(extra, MaxRuns - 1)}

Document(test_name, processing_time, test_timestamp, runs) ==
    ZathrasDocument(
        build_metadata(test_name, processing_time, test_timestamp, PyStr("rhel")),
        TestInfo(test_name),
        SystemUnderTest(OperatingSystemInfo(PyStr("rhel"))),
        TestConfiguration(PyInt(1)),
        \* build_results: total_runs=len(runs) if runs else 0
        Results(PyStr("PASS"),
                IF Truthy(runs) THEN PyInt(Len(runs.items)) ELSE PyInt(0),
                None_, runs),
        RuntimeInfo(None_))

\* documents with required fields left empty
WithFields(d, document_id, name, status) ==
    [d EXCEPT !.metadata.document_id = document_id, !.test.name = name,
              !.results.status = status]
UnfilledDocuments ==
    {WithFields(Document("coremark", Timestamp(1), Timestamp(1), runs),
                document_id, name, status) :
        runs \in {None_,
                  Dict(<< <<"1", KeyedRun(1, <<"seq_0", "sequence_">>)>> >>)},
        document_id \in {PyStr(""), PlaceholderId("coremark", Timestamp(1))},
        name \in {PyStr(""), PyStr("coremark")},
        status \in {PyStr(""), PyStr("PASS")}}

BuiltDocuments ==
    {Document("coremark", at, Timestamp(1), runs) :
        at \in Timestamps, runs \in RunsOver(SummaryShapes, SummaryExtraShapes)}
    \cup {Document("pyperf", Timestamp(1), Timestamp(1), runs) :
            runs \in {EmptyDict} \cup RunsOver(SmallShapes, SummaryExtraShapes)}
    \cup {Document("coremark", Timestamp(1), None_, runs) :
            runs \in RunsOver(SmallShapes, SummaryExtraShapes)}
    \cup {Document("coremark", Timestamp(1), Timestamp(1), runs) :
            runs \in {None_, EmptyDict} \cup AmbiguousRuns \cup KeyedRuns
                    \cup RunsOver(UnitShapes, {})
                    \cup RunsOver(PointShapes, PointExtraShapes)}
    \cup UnfilledDocuments

\* ---- validate
StartsWith(s, prefix) ==
    Len(s) >= Len(prefix) /\ SubSeq(s, 1, Len(prefix)) = prefix

InvalidSequenceKey(run_key, ts_key) ==
    [error |-> "Invalid sequence key", run_key |-> run_key, key |-> ts_key]
InvalidRunKey(run_key) == [error |-> "Invalid run key", key |-> run_key]
Required(field) == [error |-> "is required", field |-> field]

\* the errors of the loop over run.timeseries.keys(), from key i on
RECURSIVE SequenceKeyErrors(_, _, _)
SequenceKeyErrors(run_key, timeseries, i) ==
    IF i > Len(timeseries.items) THEN <<>>
    ELSE LET ts_key == timeseries.items[i][1]
         IN  (IF ~StartsWith(Chars(ts_key), Chars("sequence_"))
              THEN <<InvalidSequenceKey(run_key, ts_key)>> ELSE <<>>)
             \o SequenceKeyErrors(run_key, timeseries, i + 1)

\* the loop over self.results.runs.items() had it no inner loop over the
\* timeseries keys
RECURSIVE RunErrorsWithoutSequenceKeys(_, _)
RunErrorsWithoutSequenceKeys(runs, i) ==
    IF i > Len(runs.items) THEN <<>>
    ELSE LET run_key == runs.items[i][1]
         IN  (IF ~StartsWith(Chars(run_key), Chars("run_"))
              THEN <<InvalidRunKey(run_key)>> ELSE <<>>)
             \o RunErrorsWithoutSequenceKeys(runs, i + 1)

\* the errors of the loop over self.results.runs.items(), from run i on
RECURSIVE RunErrors(_, _)
RunErrors(runs, i) ==
    IF i > Len(runs.items) THEN <<>>
    ELSE LET run_key == runs.items[i][1]
             run == runs.items[i][2]
         IN  (IF ~StartsWith(Chars(run_key), Chars("run_"))
              THEN <<InvalidRunKey(run_key)>> ELSE <<>>)
             \o (IF Truthy(run.timeseries)
                 THEN SequenceKeyErrors(run_key, run.timeseries, 1) ELSE <<>>)
             \o RunErrors(runs, i + 1)

\* `run.timeseries` on a run that is a plain dict raises AttributeError
ValidateRaises(d) ==
    Truthy(d.results.runs)
    /\ \E i \in DOMAIN d.results.runs.items : d.results.runs.items[i][2].t # "Run"

validate(d) ==
    IF ValidateRaises(d) THEN [raised |-> "AttributeError"]
    ELSE LET errors ==
                 (IF ~Truthy(d.metadata.document_id)
                  THEN <<Required("metadata.document_id")>> ELSE <<>>)
                 \o (IF ~Truthy(d.test.name)
                     THEN <<Required("test.name")>> ELSE <<>>)
                 \o (IF ~Truthy(d.results.status)
                     THEN <<Required("results.status")>> ELSE <<>>)
                 \o (IF Truthy(d.results.runs)
                     THEN RunErrors(d.results.runs, 1) ELSE <<>>)
         IN  [raised |-> "no", is_valid |-> errors = <<>>, errors |-> errors]

\* ---- the processors: hashing a built document and assigning its ID
\* f"{test_name}_{content_hash[:16]}"
FormatDocumentId(test_name, hash_prefix) ==
    [t |-> "document_id", test_name |-> test_name, hash_prefix |-> hash_prefix]
\* f"pyperf_{benchmark_name}_{content_hash[:16]}"
FormatPyperfDocumentId(benchmark_name, hash_prefix) ==
    [t |-> "pyperf_document_id", benchmark_name |-> benchmark_name,
     hash_prefix |-> hash_prefix]
\* f"{scenario}_{benchmark_name}"
FormatScenarioName(scenario, benchmark_name) ==
    [t |-> "scenario_name", scenario |-> scenario,
     benchmark_name |-> benchmark_name]

\* BaseProcessor.process from the hash on: the document as the call leaves it
ProcessedDocument(d) ==
    LET content_hash == calculate_content_hash(d, TRUE)
    IN  [DocAfterSummary(d) EXCEPT
            !.metadata.document_id =
                FormatDocumentId(d.test.name.v, Prefix16(content_hash))]

\* PyPerfProcessor.process_multiple: the document built for one benchmark
PyperfDocument(base, run_key, run) ==
    LET benchmark_name == DictGetOr(run.metrics, "benchmark_name", PyStr(run_key))
        metadata ==
            [base.metadata EXCEPT !.scenario_name =
                IF Truthy(base.metadata.scenario_name)
                THEN FormatScenarioName(base.metadata.scenario_name, benchmark_name)
                ELSE FormatScenarioName(PyStr("pyperf"), benchmark_name)]
        single_run ==
            [t |-> "Run", run_number |-> PyInt(0), status |-> run.status,
             start_time |-> run.start_time, end_time |-> run.end_time,
             duration_seconds |-> run.duration_seconds,
             configuration |-> run.configuration, metrics |-> run.metrics,
             timeseries_summary |-> run.timeseries_summary,
             timeseries |-> run.timeseries, validation |-> run.validation]
        single_run_results ==
            Results(PyStr("PASS"), None_,
                    IF DictHas(run.metrics, "mean_seconds")
                    THEN PrimaryMetric(PyStr("mean"),
                                       DictGet(run.metrics, "mean_seconds"),
                                       PyStr("seconds"))
                    ELSE None_,
                    Dict(<< <<"run_0", single_run>> >>))
        document ==
            ZathrasDocument(metadata, base.test, base.system_under_test,
                            base.test_configuration, single_run_results,
                            base.runtime_info)
        content_hash == calculate_content_hash(document, TRUE)
    IN  [DocAfterSummary(document) EXCEPT
            !.metadata.document_id =
                FormatPyperfDocumentId(benchmark_name, Prefix16(content_hash))]

\* `run.metrics.get(...)` raises AttributeError on a plain-dict run and on a
\* run without metrics
PyperfRaises(base) ==
    \E i \in DOMAIN base.results.runs.items :
        LET run == base.results.runs.items[i][2]
        IN  run.t # "Run" \/ ~IsDict(run.metrics)

process_multiple(base) ==
    IF ~Truthy(base.results.runs) THEN Returned(<<>>)
    ELSE IF PyperfRaises(base) THEN Raised("AttributeError")
    ELSE Returned([i \in DOMAIN base.results.runs.items |->
                     PyperfDocument(base, base.results.runs.items[i][1],
                                    base.results.runs.items[i][2])])

\* ------------------------------------------------------------------ state
VARIABLES
    \* the ZathrasDocument object under processing
    doc,
    \* the last call made on it: its name, the document as it was when the
    \* call began, and what the call returned
    call,
    \* where the document is: "built", "processed" (document_id assigned and
    \* the document returned), "failed" (the processor raised)
    pc,
    \* one _make_request call: the exporter it belongs to, its max_retries,
    \* the loop variable, where the call is ("idle", "attempt", "sleeping",
    \* "returned", "raised"), the HTTP attempts and sleeps made so far in
    \* order, and what the call returned or raised
    exporter,
    max_retries,
    attempt,
    request_pc,
    events,
    outcome,
    \* run_postprocessing.main: the command line's export switches, the
    \* result directories found (each the sorted names of its results_*.zip
    \* files), the directory and file being processed, the documents parsed
    \* from that file and the one being exported, and where the run is
    \* ("idle", "directory", "file", "document", "done", "exited"), the
    \* number of the run over the same directories, and the status the
    \* process exited with
    run_no,
    exit_status,
    args,
    result_dirs,
    di,
    fi,
    documents,
    xi,
    export_pc,
    \* the ProcessingStats object, and export_failed / export_error of the
    \* file being processed
    stats,
    export_failed,
    export_error,
    \* the summary index: the documents it holds, by ID
    store,
    \* the time series index: the points it holds, each <<document ID, n>>
    ts_store,
    \* every call made on an exporter so far, in order
    log,
    \* one export_timeseries_bulk call: its arguments, the loop variable, the
    \* bulk requests sent and the counters
    bulk,
    \* one document on its way through a processor and the orchestrator:
    \* what was done with it so far, in order
    steps

documentVars == <<doc, call, pc>>
requestVars == <<exporter, max_retries, attempt, request_pc, events, outcome>>
exportVars == <<run_no, exit_status, args, result_dirs, di, fi, documents, xi, export_pc, stats, export_failed, export_error, store, ts_store, log>>
vars == <<doc, call, pc, exporter, max_retries, attempt, request_pc, events, outcome, run_no, exit_status, args, result_dirs, di, fi, documents, xi, export_pc, stats, export_failed, export_error, store, ts_store, log, bulk, steps>>

\* ProcessingStats.__init__
NewStats ==
    [total |-> 0, successful |-> 0, failed |-> 0, skipped |-> 0, errors |-> <<>>,
     processed_tests |-> [n \in {"coremark", "pyperf"} |-> 0], documents_created |-> 0, documents_duplicates |-> 0,
     timeseries_indexed |-> 0, timeseries_skipped |-> 0]

\* main has not been started
ExportIdle ==
    /\ run_no = 0
    /\ exit_status = None_
    /\ ts_store = {}
    /\ args = [opensearch |-> FALSE, horreum |-> FALSE]
    /\ result_dirs = <<>>
    /\ di = 0
    /\ fi = 0
    /\ documents = <<>>
    /\ xi = 0
    /\ export_pc = "idle"
    /\ stats = NewStats
    /\ export_failed = FALSE
    /\ export_error = None_
    /\ store = {}
    /\ log = <<>>

\* no export_timeseries_bulk call is in progress
BulkIdle == bulk = None_
\* no document is followed
StepsIdle == steps = None_

\* no _make_request call is in progress
RequestIdle ==
    /\ exporter = "opensearch"
    /\ max_retries = DefaultMaxRetries
    /\ attempt = 0
    /\ request_pc = "idle"
    /\ events = <<>>
    /\ outcome = None_

Init ==
    /\ doc \in BuiltDocuments
    /\ call = [op |-> "none"]
    /\ pc = "built"
    /\ RequestIdle
    /\ ExportIdle
    /\ BulkIdle
    /\ StepsIdle

\* the document is at hand: built, or returned by process()
AtHand == pc \in {"built", "processed"}

CalculateContentHash ==
    /\ AtHand
    /\ call' = [op |-> "calculate_content_hash", arg |-> doc,
                ret |-> calculate_content_hash(doc, TRUE)]
    /\ doc' = DocAfterSummary(doc)
    /\ UNCHANGED pc
    /\ UNCHANGED <<requestVars, exportVars, bulk, steps>>

ToDictSummaryOnly ==
    /\ AtHand
    /\ call' = [op |-> "to_dict_summary_only", arg |-> doc,
                ret |-> to_dict_summary_only(doc)]
    /\ doc' = DocAfterSummary(doc)
    /\ UNCHANGED pc
    /\ UNCHANGED <<requestVars, exportVars, bulk, steps>>

ExtractTimeseriesDocuments ==
    /\ AtHand
    /\ call' = [op |-> "extract_timeseries_documents", arg |-> doc,
                ret |-> extract_timeseries_documents(doc)]
    /\ UNCHANGED <<doc, pc>>
    /\ UNCHANGED <<requestVars, exportVars, bulk, steps>>

\* ZathrasDocument.validate on the document
Validate ==
    /\ AtHand
    /\ call' = [op |-> "validate", arg |-> doc, ret |-> validate(doc)]
    /\ UNCHANGED <<doc, pc>>
    /\ UNCHANGED <<requestVars, exportVars, bulk, steps>>

\* BaseProcessor.process on the document it built: hash, assign document_id,
\* validate (a warning at most), return; any exception becomes ProcessorError
ProcessRejectingInvalid ==
    /\ pc = "built"
    /\ doc' = ProcessedDocument(doc)
    /\ LET validation == validate(ProcessedDocument(doc))
       IN  /\ call' = [op |-> "process", arg |-> doc,
                       content_hash |-> calculate_content_hash(doc, TRUE),
                       raised |-> IF validation.raised = "no" /\ validation.is_valid
                                  THEN "no" ELSE "ProcessorError"]
           /\ pc' = IF validation.raised = "no" /\ validation.is_valid
                    THEN "processed" ELSE "failed"
    /\ UNCHANGED <<requestVars, exportVars, bulk, steps>>
Process ==
    /\ pc = "built"
    /\ doc' = ProcessedDocument(doc)
    /\ LET validation == validate(ProcessedDocument(doc))
       IN  /\ call' = [op |-> "process", arg |-> doc,
                       content_hash |-> calculate_content_hash(doc, TRUE),
                       raised |-> IF validation.raised = "no" THEN "no"
                                  ELSE "ProcessorError"]
           /\ pc' = IF validation.raised = "no" THEN "processed" ELSE "failed"
    /\ UNCHANGED <<requestVars, exportVars, bulk, steps>>

\* PyPerfProcessor.process_multiple on the sections it built: one document per
\* benchmark, each hashed and given its ID
ProcessMultiple ==
    /\ pc = "built"
    /\ doc.test.name = PyStr("pyperf")
    /\ LET result == process_multiple(doc)
       IN  /\ call' = [op |-> "process_multiple", arg |-> doc, ret |-> result]
           /\ pc' = IF result.raised = "no" THEN "split" ELSE "failed"
    /\ UNCHANGED doc
    /\ UNCHANGED <<requestVars, exportVars, bulk, steps>>

Next ==
    \/ CalculateContentHash
    \/ ToDictSummaryOnly
    \/ ExtractTimeseriesDocuments
    \/ Validate
    \/ Process
    \/ ProcessMultiple

Spec == Init /\ [][Next]_vars

\* ------------------------------------------------- exporters: _make_request
\* what one urlopen can do: answer 2xx with a body that is JSON, empty or
\* other text; raise HTTPError with a status code; raise URLError; raise
\* anything else (a read timeout)
HttpErrorCodes == {304, 400, 409, 499, 500, 503}
Replies ==
    {[kind |-> "reply", code |-> 200, body |-> b] : b \in {"json", "empty", "text"}}
    \cup {[kind |-> "HTTPError", code |-> c, body |-> "error"] : c \in HttpErrorCodes}
    \cup {[kind |-> "URLError", code |-> 0, body |-> "reason"],
          [kind |-> "timeout", code |-> 0, body |-> "timed out"]}

\* the reply's body decodes: json.loads accepts JSON only; the Horreum
\* exporter takes an empty body as {}
Decodes(e, reply) ==
    \/ reply.body = "json"
    \/ e = "horreum" /\ reply.body = "empty"
ResponseData(e, reply) ==
    IF reply.body = "json" THEN [t |-> "response", body |-> "json"] ELSE EmptyDict

\* the try block runs to its return
Succeeds(e, reply) == reply.kind = "reply" /\ Decodes(e, reply)
\* the except Exception clause takes it: a timeout, or a body json.loads
\* rejects
Unexpected(e, reply) ==
    \/ reply.kind = "timeout"
    \/ reply.kind = "reply" /\ ~Decodes(e, reply)

IsClientErrorNever(code) == FALSE
IsClientError(code) == 400 <= code /\ code < 500

Attempted(reply) == [e |-> "attempt", n |-> attempt, reply |-> reply]
Slept == [e |-> "sleep", n |-> attempt, reply |-> None_]
RequestError(text, code) == [raised |-> "Exception", text |-> text, code |-> code]

\* the loop body is entered: for attempt in range(self.max_retries)
InLoop == request_pc = "attempt" /\ attempt < max_retries

RaiseNow(reply, error) ==
    /\ events' = Append(events, Attempted(reply))
    /\ request_pc' = "raised"
    /\ outcome' = error

SleepAfterEveryAttempt(reply, error) ==
    /\ events' = Append(events, Attempted(reply))
    /\ request_pc' = "sleeping"
    /\ UNCHANGED outcome
\* sleep when an attempt is left, raise after the last one
SleepOrRaise(reply, error) ==
    /\ events' = Append(events, Attempted(reply))
    /\ IF attempt < max_retries - 1
       THEN request_pc' = "sleeping" /\ UNCHANGED outcome
       ELSE request_pc' = "raised" /\ outcome' = error

\* urlopen answered and the body decoded: return response_data
RequestReturns ==
    /\ InLoop
    /\ \E reply \in Replies :
        /\ Succeeds(exporter, reply)
        /\ events' = Append(events, Attempted(reply))
        /\ outcome' = [raised |-> "no", data |-> ResponseData(exporter, reply)]
    /\ request_pc' = "returned"
    /\ UNCHANGED <<exporter, max_retries, attempt>>
    /\ UNCHANGED <<documentVars, exportVars, bulk, steps>>

\* except urllib.error.HTTPError
HTTPErrorCaught ==
    /\ InLoop
    /\ \E reply \in Replies :
        /\ reply.kind = "HTTPError"
        /\ IF IsClientError(reply.code)
           THEN RaiseNow(reply, RequestError("Client error", reply.code))
           ELSE SleepOrRaise(reply, RequestError("Request failed after attempts", max_retries))
    /\ UNCHANGED <<exporter, max_retries, attempt>>
    /\ UNCHANGED <<documentVars, exportVars, bulk, steps>>

\* except urllib.error.URLError
URLErrorCaught ==
    /\ InLoop
    /\ \E reply \in Replies :
        /\ reply.kind = "URLError"
        /\ SleepOrRaise(reply, RequestError("Connection failed after attempts", max_retries))
    /\ UNCHANGED <<exporter, max_retries, attempt>>
    /\ UNCHANGED <<documentVars, exportVars, bulk, steps>>

\* except Exception: the last attempt re-raises what it caught
UnexpectedErrorCaught ==
    /\ InLoop
    /\ \E reply \in Replies :
        /\ Unexpected(exporter, reply)
        /\ SleepOrRaise(reply, [raised |-> IF reply.kind = "timeout" THEN "timeout" ELSE "JSONDecodeError",
                                text |-> reply.body, code |-> 0])
    /\ UNCHANGED <<exporter, max_retries, attempt>>
    /\ UNCHANGED <<documentVars, exportVars, bulk, steps>>

\* time.sleep(self.retry_delay) returns and the loop takes the next attempt
Sleep ==
    /\ request_pc = "sleeping"
    /\ events' = Append(events, Slept)
    /\ attempt' = attempt + 1
    /\ request_pc' = "attempt"
    /\ UNCHANGED <<exporter, max_retries, outcome>>
    /\ UNCHANGED <<documentVars, exportVars, bulk, steps>>

\* no document is under processing
DocumentIdle ==
    /\ doc = None_
    /\ call = [op |-> "none"]
    /\ pc = "idle"

\* a _make_request call begins, on either exporter
RequestInit ==
    /\ DocumentIdle
    /\ ExportIdle
    /\ BulkIdle
    /\ StepsIdle
    /\ exporter \in {"opensearch", "horreum"}
    /\ max_retries \in 1..MaxRetries
    /\ attempt = 0
    /\ request_pc = "attempt"
    /\ events = <<>>
    /\ outcome = None_

RequestNext ==
    \/ RequestReturns
    \/ HTTPErrorCaught
    \/ URLErrorCaught
    \/ UnexpectedErrorCaught
    \/ Sleep

RequestSpec == RequestInit /\ [][RequestNext]_vars

\* ------------------------------------------- run_postprocessing: the run
\* most documents one run exports
MaxExports == 3
\* time series points of a document that has any
PointCount == 2

\* the results_*.zip files a directory can hold, by what follows "results_":
\* two registered test types and one that is not registered
FileNames == <<"coremark", "pyperf", "unknown">>
PROCESSOR_REGISTRY == {"coremark", "pyperf"}
\* sorted(result_dir.glob("results_*.zip")): the names present, in order
SortedFiles(present) == SelectSeq(FileNames, LAMBDA n : n \in present)
ResultDirs ==
    {SortedFiles(present) : present \in {{"unknown"}, {"coremark"}, {"pyperf", "unknown"}, {"coremark", "pyperf"}}}
\* discover_result_directories: one directory, or two
ResultTrees == {<<d>> : d \in ResultDirs} \cup {<<d, e>> : d \in ResultDirs, e \in ResultDirs}

\* detect_test_type: the registered name, or None
detect_test_type(name) == IF name \in PROCESSOR_REGISTRY THEN PyStr(name) ELSE None_

\* a parsed document, as the export loop sees it: its document_id and the
\* number of its time series points
ParsedDocuments == {[id |-> "a", points |-> PointCount], [id |-> "b", points |-> 0]}
DocumentLists(lo, hi) == UNION {[1..n -> ParsedDocuments] : n \in lo..hi}
\* what the processor of a test returns: process() one document,
\* process_multiple() of pyperf a list of any length
ProcessorResults(test_name, most) ==
    IF test_name = "pyperf" THEN DocumentLists(0, IF most < 2 THEN most ELSE 2)
    ELSE DocumentLists(1, IF most < 1 THEN most ELSE 1)

\* ---- ProcessingStats
record_success(st, test_name) ==
    [st EXCEPT !.successful = @ + 1, !.processed_tests[test_name] = @ + 1]
record_failure(st, test_name, error) ==
    [st EXCEPT !.failed = @ + 1, !.errors = Append(@, <<test_name, error>>)]
record_skip_uncounted(st, test_name, reason) == st
record_skip(st, test_name, reason) ==
    [st EXCEPT !.skipped = @ + 1,
               !.errors = Append(@, <<test_name, [prefix |-> "SKIPPED", error |-> reason, at |-> <<di, fi, 0, run_no>>]>>)]
record_document_created(st) == [st EXCEPT !.documents_created = @ + 1]
record_duplicate_as_failure(st) == [st EXCEPT !.documents_duplicates = @ + 1, !.failed = @ + 1]
record_duplicate(st) == [st EXCEPT !.documents_duplicates = @ + 1]
record_timeseries_indexed(st, count) == [st EXCEPT !.timeseries_indexed = @ + count]
record_timeseries_skipped(st, count) == [st EXCEPT !.timeseries_skipped = @ + count]

\* ---- OpenSearchExporter.create_document against the summary index
Here == <<di, fi, xi, run_no>>
StoredIds == {d.id : d \in store}

\* what the PUT /{index}/_create/{doc_id} request can come to, with what the
\* index did: the index creates a document only when the ID is absent and
\* answers 409 when it is present; a request can also get no answer, be
\* answered 503 on every attempt, be rejected with a 400 whose error body
\* holds the digits 409, or be applied with its answer lost, and then the
\* next attempt of the same call is answered 409
WithBody(error, body) == [raised |-> error.raised, text |-> error.text, code |-> error.code, body |-> body]
CreateRequests(id) ==
    IF id \in StoredIds
    THEN {[reply |-> "409", written |-> FALSE,
           outcome |-> WithBody(RequestError("Client error", 409), "version_conflict_engine_exception")],
          [reply |-> "none", written |-> FALSE,
           outcome |-> WithBody(RequestError("Connection failed after attempts", DefaultMaxRetries), "refused")]}
    ELSE {[reply |-> "201", written |-> TRUE,
           outcome |-> [raised |-> "no", data |-> [t |-> "response", result |-> "created"]]],
          [reply |-> "503", written |-> FALSE,
           outcome |-> WithBody(RequestError("Request failed after attempts", DefaultMaxRetries), "unavailable")],
          [reply |-> "400", written |-> FALSE,
           outcome |-> WithBody(RequestError("Client error", 400), "409")],
          [reply |-> "lost", written |-> TRUE,
           outcome |-> WithBody(RequestError("Client error", 409), "version_conflict_engine_exception")]}

MentionsConflictNever(error) == FALSE
\* 'version_conflict_engine_exception' in error_str or '409' in error_str,
\* error_str being "<text> <code>: <body>"
MentionsConflict(error) ==
    \/ error.body \in {"version_conflict_engine_exception", "409"}
    \/ error.text = "Client error" /\ error.code = 409

\* create_document: {'id', 'result'} of the response, 'duplicate' for a
\* conflict, any other exception re-raised
create_document(request) ==
    IF request.outcome.raised = "no"
    THEN [raised |-> "no", result |-> request.outcome.data.result]
    ELSE IF MentionsConflict(request.outcome)
    THEN [raised |-> "no", result |-> "duplicate"]
    ELSE [raised |-> "Exception", error |-> request.outcome]

\* ---- TimeSeriesExporter.export_from_zathras_document: the points indexed;
\* or the bulk request out of retries, which bulk_export turns into a count
\* of failed points; or an exception from the extraction
TimeseriesExports(points) ==
    {[raised |-> "no", successful |-> points], [raised |-> "no", successful |-> 0],
     [raised |-> "ValueError", successful |-> 0]}
NoTimeseriesExport == [raised |-> "none", successful |-> 0]

ExportsTimeseriesAlways(operation, points) == points > 0
\* the time series exporter is called: operation == 'created' and ts_count > 0
ExportsTimeseries(operation, points) == operation = "created" /\ points > 0

\* ---- HorreumExporter.export_zathras_document
HorreumExports == {[raised |-> "no"], [raised |-> "Exception"]}
NoHorreumExport == [raised |-> "none"]

Event(e, id, reply, result) == [e |-> e, at |-> Here, id |-> id, reply |-> reply, result |-> result]
ExportError(prefix, error) == [prefix |-> prefix, error |-> error, at |-> Here]

\* ---- one pass of `for document in documents`: the OpenSearch try block,
\* then the Horreum try block
\* the result of the OpenSearch block: "disabled", "created", "duplicate",
\* or "raised"
OpenSearchResult(document, request, ts) ==
    IF ~args.opensearch THEN "disabled"
    ELSE IF create_document(request).raised # "no" THEN "raised"
    ELSE IF ExportsTimeseries(create_document(request).result, document.points) /\ ts.raised # "no"
    THEN "raised"
    ELSE create_document(request).result

OpenSearchEvents(document, request, ts) ==
    IF ~args.opensearch THEN <<>>
    ELSE <<Event("create_document", document.id, request.reply,
                 IF create_document(request).raised # "no" THEN "raised"
                 ELSE create_document(request).result)>>
         \o (IF create_document(request).raised = "no"
                /\ ExportsTimeseries(create_document(request).result, document.points)
             THEN <<Event("export_from_zathras_document", document.id, "bulk",
                          IF ts.raised # "no" THEN "raised"
                          ELSE IF ts.successful = document.points THEN "indexed" ELSE "failed")>>
             ELSE <<>>)

OpenSearchStats(st, document, request, ts) ==
    IF ~args.opensearch \/ create_document(request).raised # "no" THEN st
    ELSE IF create_document(request).result = "created"
    THEN IF document.points > 0 /\ ts.raised = "no"
         THEN record_timeseries_indexed(record_document_created(st), ts.successful)
         ELSE record_document_created(st)
    ELSE IF create_document(request).result = "duplicate"
    THEN IF document.points > 0
         THEN record_timeseries_skipped(record_duplicate(st), document.points)
         ELSE record_duplicate(st)
    ELSE st

OpenSearchError(request, ts) ==
    ExportError("OpenSearch export failed",
                IF create_document(request).raised # "no" THEN create_document(request).error
                ELSE [raised |-> ts.raised, text |-> "timeseries", code |-> 0])

NextDocumentAbortingOnError(raised) == IF raised THEN Len(documents) + 1 ELSE xi + 1
\* the loop goes on to the next document whatever the two blocks did
NextDocument(raised) == xi + 1

\* ---- where the run goes when a file is finished: the next file of the
\* directory, or back to main's loop for the next directory
FileFinished ==
    IF fi < Len(result_dirs[di])
    THEN fi' = fi + 1 /\ export_pc' = "file" /\ UNCHANGED di
    ELSE fi' = 0 /\ di' = di + 1
         /\ export_pc' = IF di < Len(result_dirs) THEN "directory" ELSE "done"

\* the documents parsed so far in the run
Exported ==
    Cardinality({p \in (DOMAIN log) \X (1..MaxExports) : log[p[1]].e = "process" /\ log[p[1]].at[4] = run_no /\ p[2] <= Len(log[p[1]].reply)})

\* main calls process_result_directory on the next directory: the exporters
\* are built, the files listed; a directory without result files returns
ProcessResultDirectory ==
    /\ export_pc = "directory"
    /\ IF result_dirs[di] = <<>>
       THEN /\ di' = di + 1
            /\ export_pc' = IF di < Len(result_dirs) THEN "directory" ELSE "done"
            /\ UNCHANGED fi
       ELSE /\ fi' = 1
            /\ export_pc' = "file"
            /\ UNCHANGED di
    /\ UNCHANGED <<run_no, exit_status, ts_store, args, result_dirs, documents, xi, stats, export_failed, export_error, store, log>>
    /\ UNCHANGED <<documentVars, requestVars, bulk, steps>>

\* a file whose test type is not registered is skipped
SkipUnknownFile ==
    /\ export_pc = "file"
    /\ detect_test_type(result_dirs[di][fi]) = None_
    /\ stats' = record_skip([stats EXCEPT !.total = @ + 1], result_dirs[di][fi], "Unknown test type")
    /\ FileFinished
    /\ UNCHANGED <<run_no, exit_status, ts_store, args, result_dirs, documents, xi, export_failed, export_error, store, log>>
    /\ UNCHANGED <<documentVars, requestVars, bulk, steps>>

\* the processor, or writing the JSON files, raises: the outer except clause
\* records the failure of the file
ProcessingFails ==
    /\ export_pc = "file"
    /\ detect_test_type(result_dirs[di][fi]) # None_
    /\ stats' = record_failure([stats EXCEPT !.total = @ + 1], result_dirs[di][fi],
                               [prefix |-> "ProcessorError", error |-> None_, at |-> <<di, fi, 0, run_no>>])
    /\ FileFinished
    /\ UNCHANGED <<run_no, exit_status, ts_store, args, result_dirs, documents, xi, export_failed, export_error, store, log>>
    /\ UNCHANGED <<documentVars, requestVars, bulk, steps>>

\* the processor returns its documents and the export loop is entered
ParseFile ==
    /\ export_pc = "file"
    /\ detect_test_type(result_dirs[di][fi]) # None_
    /\ \E parsed \in ProcessorResults(result_dirs[di][fi], MaxExports - Exported) :
        \* a file parsed by an earlier run of main yields the same documents
        /\ \A i \in DOMAIN log :
            (log[i].e = "process" /\ log[i].at[1] = di /\ log[i].at[2] = fi) => parsed = log[i].reply
        /\ documents' = parsed
        /\ log' = Append(log, [e |-> "process", at |-> <<di, fi, 0, run_no>>, id |-> result_dirs[di][fi],
                               reply |-> parsed, result |-> "parsed"])
    /\ stats' = [stats EXCEPT !.total = @ + 1]
    /\ export_failed' = FALSE
    /\ export_error' = None_
    /\ xi' = 1
    /\ export_pc' = "document"
    /\ UNCHANGED <<run_no, exit_status, ts_store, args, result_dirs, di, fi, store>>
    /\ UNCHANGED <<documentVars, requestVars, bulk, steps>>

\* the loop body on documents[xi]
ExportDocument ==
    /\ export_pc = "document"
    /\ xi <= Len(documents)
    /\ \E request \in CreateRequests(documents[xi].id) :
       \E ts \in (IF create_document(request).raised = "no"
                     /\ ExportsTimeseries(create_document(request).result, documents[xi].points)
                  THEN TimeseriesExports(documents[xi].points) ELSE {NoTimeseriesExport}) :
       \E horreum \in (IF args.horreum THEN HorreumExports ELSE {NoHorreumExport}) :
        LET document == documents[xi]
            result == OpenSearchResult(document, request, ts)
        IN  /\ log' = log \o OpenSearchEvents(document, request, ts)
                         \o (IF args.horreum
                             THEN <<Event("export_zathras_document", document.id, "run",
                                          IF horreum.raised = "no" THEN "exported" ELSE "raised")>>
                             ELSE <<>>)
            /\ store' = IF args.opensearch /\ request.written
                        THEN store \cup {[id |-> document.id, exported_at |-> Here]}
                        ELSE store
            /\ ts_store' = IF ts.raised = "no"
                           THEN ts_store \cup {<<document.id, n>> : n \in 1..ts.successful}
                           ELSE ts_store
            /\ stats' = OpenSearchStats(stats, document, request, ts)
            /\ export_failed' = (export_failed \/ result = "raised" \/ horreum.raised = "Exception")
            /\ export_error' =
                IF result = "raised" THEN OpenSearchError(request, ts)
                ELSE IF horreum.raised = "Exception" /\ ~export_failed
                THEN ExportError("Horreum export failed", [raised |-> "Exception", text |-> "horreum", code |-> 0])
                ELSE export_error
            /\ xi' = NextDocument(result = "raised" \/ horreum.raised = "Exception")
    /\ UNCHANGED <<run_no, exit_status, args, result_dirs, di, fi, documents, export_pc>>
    /\ UNCHANGED <<documentVars, requestVars, bulk, steps>>

\* after the loop: one record_failure or record_success for the file
RecordOutcome ==
    /\ export_pc = "document"
    /\ xi > Len(documents)
    /\ stats' = IF export_failed THEN record_failure(stats, result_dirs[di][fi], export_error)
                ELSE record_success(stats, result_dirs[di][fi])
    /\ FileFinished
    /\ UNCHANGED <<run_no, exit_status, ts_store, args, result_dirs, documents, xi, export_failed, export_error, store, log>>
    /\ UNCHANGED <<documentVars, requestVars, bulk, steps>>

\* main: the directories are discovered and a fresh ProcessingStats is made
ExportInit ==
    /\ DocumentIdle
    /\ RequestIdle
    /\ BulkIdle
    /\ StepsIdle
    /\ run_no = 1
    /\ exit_status = None_
    /\ ts_store = {}
    /\ args \in {[opensearch |-> TRUE, horreum |-> FALSE], [opensearch |-> TRUE, horreum |-> TRUE],
                 [opensearch |-> FALSE, horreum |-> TRUE]}
    \* with Horreum export on, one directory; without it, one or two
    /\ result_dirs \in IF args.horreum THEN {<<d>> : d \in ResultDirs} ELSE ResultTrees
    /\ di = 1
    /\ fi = 0
    /\ documents = <<>>
    /\ xi = 0
    /\ export_pc = "directory"
    /\ stats = NewStats
    /\ export_failed = FALSE
    /\ export_error = None_
    /\ store = {}
    /\ log = <<>>

\* the end of main: sys.exit(1) when a failure was recorded or nothing was
\* processed successfully, sys.exit(0) otherwise
ExitStatusOfFailuresOnly(st) == IF st.failed > 0 THEN 1 ELSE 0
ExitStatus(st) == IF st.failed > 0 THEN 1 ELSE IF st.successful = 0 THEN 1 ELSE 0
Exit ==
    /\ export_pc = "done"
    /\ exit_status' = ExitStatus(stats)
    /\ export_pc' = "exited"
    /\ UNCHANGED <<run_no, ts_store, args, result_dirs, di, fi, documents, xi, stats, export_failed, export_error, store, log>>
    /\ UNCHANGED <<documentVars, requestVars, bulk, steps>>

ExportNext ==
    \/ ProcessResultDirectory
    \/ SkipUnknownFile
    \/ ProcessingFails
    \/ ParseFile
    \/ ExportDocument
    \/ RecordOutcome
    \/ Exit

ExportSpec == ExportInit /\ [][ExportNext]_vars

\* ---- main run again over the same result directories
\* runs of main
MaxMainRuns == 2
\* main is started again with the same arguments: new statistics, the
\* indexes as the earlier runs left them
Rerun ==
    /\ export_pc = "exited"
    /\ run_no < MaxMainRuns
    /\ run_no' = run_no + 1
    /\ exit_status' = None_
    /\ di' = 1
    /\ fi' = 0
    /\ documents' = <<>>
    /\ xi' = 0
    /\ export_pc' = "directory"
    /\ stats' = NewStats
    /\ export_failed' = FALSE
    /\ export_error' = None_
    /\ UNCHANGED <<args, result_dirs, store, ts_store, log>>
    /\ UNCHANGED <<documentVars, requestVars, bulk, steps>>

\* --opensearch alone, over one directory
RerunInit ==
    /\ ExportInit
    /\ args = [opensearch |-> TRUE, horreum |-> FALSE]
    /\ Len(result_dirs) = 1

RerunNext ==
    \/ ExportNext
    \/ Rerun

RerunSpec == RerunInit /\ [][RerunNext]_vars

\* ------------------------------------------------ export_timeseries_bulk
\* time series documents of a call, and documents per bulk request
MaxTsDocs == 4
MaxBatchSize == 3

\* ts_docs[i:i + batch_size]
BatchWithoutLast(ts_docs, i, batch_size) ==
    SubSeq(ts_docs, i + 1, (IF i + batch_size < Len(ts_docs) THEN i + batch_size ELSE Len(ts_docs)) - 1)
Batch(ts_docs, i, batch_size) ==
    SubSeq(ts_docs, i + 1, IF i + batch_size < Len(ts_docs) THEN i + batch_size ELSE Len(ts_docs))

\* what the POST /{index}/_bulk request of a batch can come to: a response
\* with an item for every document, each indexed (201) or rejected (429), a
\* response one item short, or _make_request raising after its attempts
BulkAnswers(docs_list) ==
    {[kind |-> "items", items |-> s] : s \in [1..Len(docs_list) -> {201, 429}]}
    \cup {[kind |-> "items", items |-> [k \in 1..(Len(docs_list) - 1) |-> 201]],
          [kind |-> "raised"]}

\* OpenSearchExporter.bulk_export: the items are counted by their status; an
\* exception of the request is caught and counts every document as failed
bulk_export(docs_list, answer) ==
    IF docs_list = <<>>
    THEN [total |-> 0, successful |-> 0, failed |-> 0, errors |-> <<>>]
    ELSE IF answer.kind = "raised"
    THEN [total |-> Len(docs_list), successful |-> 0, failed |-> Len(docs_list),
          errors |-> <<"Request failed after attempts">>]
    ELSE LET rejected == SelectSeq(answer.items, LAMBDA status : status \notin {200, 201})
         IN  [total |-> Len(docs_list),
              successful |-> Len(answer.items) - Len(rejected),
              failed |-> Len(rejected),
              errors |-> [k \in DOMAIN rejected |-> "Doc"]]

\* export_timeseries_bulk is called with n documents and a batch size
BulkInit ==
    /\ DocumentIdle
    /\ RequestIdle
    /\ ExportIdle
    /\ StepsIdle
    /\ \E n \in 0..MaxTsDocs, batch_size \in 1..MaxBatchSize :
        bulk = [ts_docs |-> [k \in 1..n |-> k], batch_size |-> batch_size, i |-> 0,
                requests |-> <<>>, itemwise |-> TRUE,
                successful |-> 0, failed |-> 0, errors |-> <<>>,
                pc |-> "loop", result |-> None_]

\* the body of `for i in range(0, total, batch_size)` on one batch
ExportBatch(answer) ==
    LET batch == Batch(bulk.ts_docs, bulk.i, bulk.batch_size)
        result == bulk_export(batch, answer)
    IN  bulk' = [bulk EXCEPT
                    !.requests = Append(@, [docs |-> batch, answer |-> answer.kind]),
                    !.itemwise = @ /\ (answer.kind = "items" => Len(answer.items) = Len(batch)),
                    !.successful = @ + result.successful,
                    !.failed = @ + result.failed,
                    !.errors = @ \o result.errors,
                    !.i = @ + bulk.batch_size]

\* the bulk request of the batch is answered
BatchAnswered ==
    /\ bulk # None_
    /\ bulk.pc = "loop"
    /\ bulk.i < Len(bulk.ts_docs)
    /\ \E answer \in BulkAnswers(Batch(bulk.ts_docs, bulk.i, bulk.batch_size)) :
        /\ answer.kind = "items"
        /\ ExportBatch(answer)
    /\ UNCHANGED <<documentVars, requestVars, exportVars, steps>>

\* the bulk request of the batch fails on every attempt
BatchFails ==
    /\ bulk # None_
    /\ bulk.pc = "loop"
    /\ bulk.i < Len(bulk.ts_docs)
    /\ ExportBatch([kind |-> "raised"])
    /\ UNCHANGED <<documentVars, requestVars, exportVars, steps>>

\* the loop is over: the statistics are returned
ReturnStats ==
    /\ bulk # None_
    /\ bulk.pc = "loop"
    /\ bulk.i >= Len(bulk.ts_docs)
    /\ bulk' = [bulk EXCEPT
                    !.pc = "returned",
                    !.result = [total |-> Len(bulk.ts_docs), successful |-> bulk.successful,
                                failed |-> bulk.failed, errors |-> bulk.errors]]
    /\ UNCHANGED <<documentVars, requestVars, exportVars, steps>>

BulkNext ==
    \/ BatchAnswered
    \/ BatchFails
    \/ ReturnStats

BulkSpec == BulkInit /\ [][BulkNext]_vars

\* ------------------------------------- one result file, step by step
\* documents process_multiple() builds
MaxStepDocs == 2

\* a result file is processed by BaseProcessor.process() (one document) or by
\* PyPerfProcessor.process_multiple(), with any of --output-json,
\* --opensearch, --horreum
StepsInit ==
    /\ DocumentIdle
    /\ RequestIdle
    /\ ExportIdle
    /\ BulkIdle
    /\ \E processor \in {"process", "process_multiple"}, n \in 1..MaxStepDocs,
          output_json \in BOOLEAN, opensearch \in BOOLEAN, horreum \in BOOLEAN :
        /\ processor = "process" => n = 1
        /\ steps = [processor |-> processor, n |-> n,
                    args |-> [output_json |-> output_json, opensearch |-> opensearch,
                              horreum |-> horreum],
                    pc |-> "ZathrasDocument", k |-> 1, trace |-> <<>>]

Step(name, result) == [step |-> name, doc |-> steps.k, result |-> result]
\* the step is taken on document k, and the next is pc on document k2
Goes(name, result, pc2, k2) ==
    steps' = [steps EXCEPT !.trace = Append(@, Step(name, result)), !.pc = pc2, !.k = k2]

\* the export loop on document k: OpenSearch first, then Horreum
DocumentLoop(k) ==
    IF k > steps.n THEN <<"recorded", steps.n>>
    ELSE IF steps.args.opensearch THEN <<"create_document", k>>
    ELSE IF steps.args.horreum THEN <<"export_zathras_document", k>>
    ELSE <<"recorded", steps.n>>
\* what follows the documents being returned: the JSON files, or the loop
AfterReturn ==
    IF steps.args.output_json THEN <<"to_json", 1>> ELSE DocumentLoop(1)

\* document = ZathrasDocument(...), with the temporary ID of its metadata
ConstructSkippingHash ==
    /\ steps # None_
    /\ steps.pc = "ZathrasDocument"
    /\ Goes("ZathrasDocument", "ok", "document_id", steps.k)
    /\ UNCHANGED <<documentVars, requestVars, exportVars, bulk>>
Construct ==
    /\ steps # None_
    /\ steps.pc = "ZathrasDocument"
    /\ Goes("ZathrasDocument", "ok", "to_dict_summary_only", steps.k)
    /\ UNCHANGED <<documentVars, requestVars, exportVars, bulk>>

\* calculate_content_hash: the summary projection is built
SummaryProjection ==
    /\ steps # None_
    /\ steps.pc = "to_dict_summary_only"
    /\ Goes("to_dict_summary_only", "ok", "sha256", steps.k)
    /\ UNCHANGED <<documentVars, requestVars, exportVars, bulk>>

\* calculate_content_hash: the projection is serialised and hashed
Sha256 ==
    /\ steps # None_
    /\ steps.pc = "sha256"
    /\ Goes("sha256", "ok", "document_id", steps.k)
    /\ UNCHANGED <<documentVars, requestVars, exportVars, bulk>>

\* document.metadata.document_id = f"..._{content_hash[:16]}"; process()
\* goes on to validate, process_multiple() to its next document
AssignDocumentId ==
    /\ steps # None_
    /\ steps.pc = "document_id"
    /\ IF steps.processor = "process"
       THEN Goes("document_id", "ok", "validate", steps.k)
       ELSE IF steps.k < steps.n
       THEN Goes("document_id", "ok", "ZathrasDocument", steps.k + 1)
       ELSE Goes("document_id", "ok", AfterReturn[1], AfterReturn[2])
    /\ UNCHANGED <<documentVars, requestVars, exportVars, bulk>>

\* document.validate(), whose verdict is logged; the document is returned
ValidateDocument ==
    /\ steps # None_
    /\ steps.pc = "validate"
    /\ \E verdict \in {"valid", "invalid"} :
        Goes("validate", verdict, AfterReturn[1], AfterReturn[2])
    /\ UNCHANGED <<documentVars, requestVars, exportVars, bulk>>

\* a step of the processor raises: the file is recorded as failed and none
\* of its documents is exported
ProcessorRaises ==
    /\ steps # None_
    /\ steps.pc \in {"ZathrasDocument", "to_dict_summary_only", "sha256", "validate"}
    /\ Goes(steps.pc, "raised", "failed", steps.k)
    /\ UNCHANGED <<documentVars, requestVars, exportVars, bulk>>

\* the JSON file of document k is written, named by its document_id; an
\* error of the writing fails the file
WriteJson ==
    /\ steps # None_
    /\ steps.pc = "to_json"
    /\ \/ IF steps.k < steps.n
          THEN Goes("to_json", "ok", "to_json", steps.k + 1)
          ELSE Goes("to_json", "ok", DocumentLoop(1)[1], DocumentLoop(1)[2])
       \/ Goes("to_json", "raised", "failed", steps.k)
    /\ UNCHANGED <<documentVars, requestVars, exportVars, bulk>>

\* document k is exported to OpenSearch or to Horreum; an exception is
\* caught and the loop goes on
ExportAttempt ==
    /\ steps # None_
    /\ steps.pc \in {"create_document", "export_zathras_document"}
    /\ \E result \in {"ok", "raised"} :
        IF steps.pc = "create_document" /\ steps.args.horreum
        THEN Goes("create_document", result, "export_zathras_document", steps.k)
        ELSE Goes(steps.pc, result, DocumentLoop(steps.k + 1)[1], DocumentLoop(steps.k + 1)[2])
    /\ UNCHANGED <<documentVars, requestVars, exportVars, bulk>>

StepsNext ==
    \/ Construct
    \/ SummaryProjection
    \/ Sha256
    \/ AssignDocumentId
    \/ ValidateDocument
    \/ ProcessorRaises
    \/ WriteJson
    \/ ExportAttempt

StepsSpec == StepsInit /\ [][StepsNext]_vars

\* ------------------------------------------------------------------ claims
RunIndexes(d) ==
    IF IsDict(d.results.runs) THEN DOMAIN d.results.runs.items ELSE {}
RunAt(d, i) == d.results.runs.items[i][2]
\* d with its i-th run replaced
WithRun(d, i, run) ==
    [d EXCEPT !.results.runs =
        Dict([j \in DOMAIN d.results.runs.items |->
                IF j = i THEN <<d.results.runs.items[j][1], run>>
                ELSE d.results.runs.items[j]])]
Hashed == call.op = "calculate_content_hash"

\* metadata that differs from m at most in the timestamps and the document ID
TimestampVariants(m) ==
    {[m EXCEPT !.processing_timestamp = a, !.test_timestamp = b,
               !.collection_timestamp = c, !.document_id = i] :
        a \in Timestamps, b \in Timestamps \cup {None_},
        c \in {None_, Timestamp(MaxTime)},
        i \in {m.document_id,
               FormatDocumentId("coremark", Prefix16(Sha256HexDigest(EmptyDict)))}}

\* C1: two documents that differ only in metadata.processing_timestamp,
\* test_timestamp, collection_timestamp and document_id have the same content
\* hash: the digest returned for a document is the digest of each of its
\* timestamp variants.
C1_HashIgnoresTimestamps ==
    Hashed =>
        \A m \in TimestampVariants(call.arg.metadata) :
            calculate_content_hash([call.arg EXCEPT !.metadata = m], TRUE) = call.ret

C1_Witness ==
    /\ Hashed
    /\ call.arg.metadata.processing_timestamp = Timestamp(1)
    /\ IsNone(call.arg.metadata.test_timestamp)
    /\ \E m \in TimestampVariants(call.arg.metadata) :
           /\ m.processing_timestamp = Timestamp(MaxTime)
           /\ m.test_timestamp = Timestamp(1)
           /\ m.document_id # call.arg.metadata.document_id

\* metadata that differs from m in the fields that are not part of the test,
\* the system under test, the configuration or the results
ProvenanceVariants(m) ==
    {[m EXCEPT !.os_vendor = o, !.iteration = n, !.scenario_name = sc,
               !.processing_timestamp = a] :
        o \in {m.os_vendor, None_, PyStr("fedora")},
        n \in {m.iteration, PyInt(1)},
        sc \in {m.scenario_name, PyStr("nightly")},
        a \in Timestamps}
RuntimeInfoVariants(r) == {r, None_, RuntimeInfo(PyStr("run_coremark.sh"))}

\* C2: the content hash is a function of test, system_under_test,
\* test_configuration and results without timeseries only: documents that agree
\* on these four sections have the same digest whatever their metadata and
\* runtime_info.
C2_HashDependsOnContentOnly ==
    Hashed =>
        \A m \in ProvenanceVariants(call.arg.metadata),
           r \in RuntimeInfoVariants(call.arg.runtime_info) :
            calculate_content_hash([call.arg EXCEPT !.metadata = m,
                                                   !.runtime_info = r], TRUE)
                = call.ret

\* numeric values a metric may be changed to
NumericValues ==
    {PyInt(v) : v \in 0..(MaxValue + 1)} \cup {PyFloat(v) : v \in 0..(MaxValue + 1)}
    \cup {PyBool(TRUE), PyBool(FALSE)}
\* the values that differ, as numbers, from old
OtherNumbers(old) == {w \in NumericValues : NumberOf(w) # NumberOf(old)}
\* a run's metrics, for a Run object and for a plain dict
MetricsOf(run) ==
    IF run.t = "Run" THEN run.metrics ELSE DictGetOr(run, "metrics", None_)
WithMetrics(run, metrics) ==
    IF run.t = "Run" THEN [run EXCEPT !.metrics = metrics]
    ELSE DictSet(run, "metrics", metrics)
\* the metrics maps that differ from m in exactly one numeric value, at the top
\* level or one level down
SingleValueChanges(m) ==
    IF ~IsDict(m) THEN {}
    ELSE UNION {
           LET k == m.items[i][1]
               old == m.items[i][2]
           IN  IF IsNumeric(old) THEN {DictSet(m, k, w) : w \in OtherNumbers(old)}
               ELSE IF IsDict(old)
               THEN UNION {
                      LET inner == old.items[j][2]
                      IN  IF IsNumeric(inner)
                          THEN {DictSet(m, k, DictSet(old, old.items[j][1], w)) :
                                  w \in OtherNumbers(inner)}
                          ELSE {} : j \in DOMAIN old.items}
               ELSE {} : i \in DOMAIN m.items}

\* C3: changing any single numeric value inside one run's metrics to a
\* different number changes the canonical summary that is digested, and so the
\* content hash.
C3_HashSensitiveToMetricValues ==
    Hashed =>
        \A i \in RunIndexes(call.arg) :
            \A m \in SingleValueChanges(MetricsOf(RunAt(call.arg, i))) :
                LET changed == WithRun(call.arg, i,
                                       WithMetrics(RunAt(call.arg, i), m))
                IN  /\ CanonicalSummary(changed, TRUE)
                        # CanonicalSummary(call.arg, TRUE)
                    /\ calculate_content_hash(changed, TRUE) # call.ret

C3_Witness ==
    /\ Hashed
    /\ \E i \in RunIndexes(call.arg) :
           /\ RunAt(call.arg, i).t = "dict"
           /\ IsDict(MetricsOf(RunAt(call.arg, i)))
           /\ DictHas(MetricsOf(RunAt(call.arg, i)), "detail")
           /\ SingleValueChanges(MetricsOf(RunAt(call.arg, i))) # {}

\* C4: calculate_content_hash() and to_dict_summary_only() leave the caller's
\* document unchanged: after the call every run still holds the timeseries,
\* metrics and configuration it held before, Run object or plain dict.
C4_SummaryAndHashLeaveDocumentUnchanged ==
    call.op \in {"calculate_content_hash", "to_dict_summary_only"} =>
        doc.results.runs = call.arg.results.runs

\* the benchmark of the i-th document process_multiple() returned
BenchmarkNameAt(base, i) ==
    DictGetOr(RunAt(base, i).metrics, "benchmark_name",
              PyStr(base.results.runs.items[i][1]))

\* C5: the identifier is recomputable from the finished document: once
\* process() has assigned document_id, the content hash of that document,
\* computed again, is the hash whose first 16 characters end the ID
\* (test.name + '_' + hash[:16]; for process_multiple 'pyperf_' +
\* benchmark_name + '_' + hash[:16]), and assigning the ID did not change the
\* hash.
C5_DocumentIdRecomputable ==
    /\ (pc = "processed" \/ call.op = "process") =>
           doc.metadata.document_id =
               FormatDocumentId(doc.test.name.v,
                                Prefix16(calculate_content_hash(doc, TRUE)))
    /\ (pc = "processed" /\ Hashed) =>
           doc.metadata.document_id.hash_prefix = Prefix16(call.ret)
    /\ call.op = "process" =>
           calculate_content_hash(doc, TRUE) = call.content_hash
    /\ (call.op = "process_multiple" /\ call.ret.raised = "no") =>
           \A i \in DOMAIN call.ret.docs :
               call.ret.docs[i].metadata.document_id =
                   FormatPyperfDocumentId(
                       BenchmarkNameAt(call.arg, i),
                       Prefix16(calculate_content_hash(call.ret.docs[i], TRUE)))

C5_Witness ==
    /\ pc = "processed"
    /\ Hashed
    /\ call.arg.metadata.document_id.t = "document_id"
    /\ call.arg.metadata.document_id.hash_prefix = Prefix16(call.ret)

\* the timeseries maps a run may be given in place of its own
TimeseriesVariants ==
    {None_, EmptyDict}
    \cup {Dict(<< <<k, TimeSeriesPoint(at, m)>> >>) :
            k \in {"sequence_0", "sequence_1"}, at \in Timestamps,
            m \in {EmptyDict, Dict(<< <<"value", PyFloat(1)>> >>),
                   Dict(<< <<"value", PyFloat(MaxValue)>>,
                           <<"iops", PyInt(1)>> >>)}}
\* the run with its timeseries map replaced (None: with no timeseries)
WithTimeseries(run, timeseries) ==
    IF run.t = "Run" THEN [run EXCEPT !.timeseries = timeseries]
    ELSE IF IsNone(timeseries) THEN DictWithout(run, "timeseries")
    ELSE DictSet(run, "timeseries",
                 Dict([i \in DOMAIN timeseries.items |->
                         <<timeseries.items[i][1],
                           PointToDict(timeseries.items[i][2])>>]))

\* C6: timeseries data never takes part in identity: adding, removing or
\* changing timeseries points of any run, every other field held fixed, leaves
\* the content hash unchanged.
C6_HashIgnoresTimeseries ==
    Hashed =>
        \A i \in RunIndexes(call.arg) :
            \A ts \in TimeseriesVariants :
                calculate_content_hash(
                    WithRun(call.arg, i, WithTimeseries(RunAt(call.arg, i), ts)),
                    TRUE) = call.ret

C6_Witness ==
    /\ Hashed
    /\ \E i \in RunIndexes(call.arg) :
           /\ RunAt(call.arg, i).t = "Run"
           /\ Truthy(RunAt(call.arg, i).timeseries)
           /\ \E ts \in TimeseriesVariants :
                  Truthy(ts) /\ ts # RunAt(call.arg, i).timeseries

\* a key named k in the dict x or in a dict nested in it, at any depth
RECURSIVE HasKeyAnywhere(_, _)
HasKeyAnywhere(x, k) ==
    /\ IsDict(x)
    /\ \/ DictHas(x, k)
       \/ \E i \in DOMAIN x.items : HasKeyAnywhere(x.items[i][2], k)

Summarised == call.op = "to_dict_summary_only"
\* the runs of the returned summary, when it has any
SummaryRuns ==
    IF DictHas(DictGet(call.ret, "results"), "runs")
    THEN DictGet(DictGet(call.ret, "results"), "runs")
    ELSE EmptyDict
\* the timeseries_summary a run serialises: of a Run object when it is set, of
\* a plain dict when the key is there
KeepsSummary(run, run_data) ==
    IF run.t = "Run"
    THEN Truthy(run.timeseries_summary) =>
            /\ DictHas(run_data, "timeseries_summary")
            /\ DictGet(run_data, "timeseries_summary")
                   = TimeSeriesSummary_to_dict(run.timeseries_summary)
    ELSE DictHas(run, "timeseries_summary") =>
            /\ DictHas(run_data, "timeseries_summary")
            /\ DictGet(run_data, "timeseries_summary")
                   = DictGet(run, "timeseries_summary")

\* C7 as claimed: the dictionary to_dict_summary_only() returns has no key
\* named 'timeseries' anywhere under results.runs, at any nesting depth, and
\* keeps each run's timeseries_summary.
C7_NoTimeseriesKeyAtAnyDepth ==
    Summarised =>
        /\ ~HasKeyAnywhere(SummaryRuns, "timeseries")
        /\ \A i \in DOMAIN SummaryRuns.items :
               KeepsSummary(RunAt(call.arg, i), SummaryRuns.items[i][2])

\* C7 as amended: no run of the returned summary has a 'timeseries' field (a
\* key of the run itself), every run of the document is in the summary, and
\* each run's timeseries_summary is kept; a key named 'timeseries' inside a
\* run's configuration, metrics or validation map is left where it is.
C7_NoRunKeepsTimeseriesField ==
    Summarised =>
        /\ Len(SummaryRuns.items) = Cardinality(RunIndexes(call.arg))
        /\ \A i \in DOMAIN SummaryRuns.items :
               /\ ~DictHas(SummaryRuns.items[i][2], "timeseries")
               /\ KeepsSummary(RunAt(call.arg, i), SummaryRuns.items[i][2])

C7_Witness ==
    /\ Summarised
    /\ Len(SummaryRuns.items) = MaxRuns
    /\ \A i \in RunIndexes(call.arg) :
           IF RunAt(call.arg, i).t = "Run"
           THEN Truthy(RunAt(call.arg, i).timeseries)
           ELSE DictHas(RunAt(call.arg, i), "timeseries")
    /\ \E i \in RunIndexes(call.arg) : RunAt(call.arg, i).t = "dict"
    /\ \E i \in RunIndexes(call.arg) : RunAt(call.arg, i).t = "Run"

Extracted ==
    call.op = "extract_timeseries_documents" /\ call.ret.raised = "no"
\* the timeseries points of the document, each as <<run index, point index>>
PointsOf(d) ==
    UNION {{<<i, j>> : j \in DOMAIN RunAt(d, i).timeseries.items} :
              i \in {r \in RunIndexes(d) : Truthy(RunAt(d, r).timeseries)}}
PointAt(d, p) == RunAt(d, p[1]).timeseries.items[p[2]][2]
HasNumericMetric(point) ==
    /\ IsDict(point.metrics)
    /\ \E i \in DOMAIN point.metrics.items :
           IsNumeric(point.metrics.items[i][2])

\* C8 as claimed: the number of documents extract_timeseries_documents()
\* returns is the number of timeseries points over all runs minus the number
\* of points whose metrics hold no numeric entry: a point is skipped if and
\* only if it has no numeric metric.
C8_SkippedIffNoNumericMetric ==
    Extracted =>
        Len(call.ret.docs) =
            Cardinality(PointsOf(call.arg))
            - Cardinality({p \in PointsOf(call.arg) :
                             ~HasNumericMetric(PointAt(call.arg, p))})

\* the run and the point an extracted document was made from
SourceRun(d, ts_doc) == DictGet(d.results.runs, ts_doc.results.run.run_key)
SourcePoint(d, ts_doc) ==
    LET run_key == ts_doc.results.run.run_key
        timeseries == SourceRun(d, ts_doc).timeseries
        seq_key == CHOOSE k \in DictKeys(timeseries) :
                       FormatTimeseriesId(d.metadata.document_id, run_key, k)
                           = ts_doc.metadata.timeseries_id
    IN  DictGet(timeseries, seq_key)
\* the name of the entry the priority rule picks from a point's metrics
PreferredNames == <<"value_seconds", "throughput_bops", "value">>
ChosenName(metrics) ==
    IF \E n \in DOMAIN PreferredNames : DictHas(metrics, PreferredNames[n])
    THEN LET best == CHOOSE n \in DOMAIN PreferredNames :
                        /\ DictHas(metrics, PreferredNames[n])
                        /\ \A m \in 1..(n - 1) : ~DictHas(metrics, PreferredNames[m])
         IN  PreferredNames[best]
    ELSE LET i == CHOOSE i \in DOMAIN metrics.items :
                     /\ IsNumeric(metrics.items[i][2])
                     /\ \A j \in 1..(i - 1) : ~IsNumeric(metrics.items[j][2])
         IN  metrics.items[i][1]

\* C9: for every extracted point, results.value is the point metric named
\* 'value_seconds' if present, else 'throughput_bops', else 'value', else the
\* first numeric entry of the point's metrics in map order; point_metrics is
\* the point's metrics without that one entry, in their order, and is left out
\* (None) when nothing remains.
C9_ValueSelectionPriority ==
    Extracted =>
        \A n \in DOMAIN call.ret.docs :
            LET ts_doc == call.ret.docs[n]
                metrics == SourcePoint(call.arg, ts_doc).metrics
                chosen == ChosenName(metrics)
                others == SelectSeq(metrics.items, LAMBDA p : p[1] # chosen)
            IN  /\ ts_doc.results.value = DictGet(metrics, chosen)
                /\ ts_doc.results.point_metrics =
                       IF others = <<>> THEN None_ ELSE Dict(others)

C9_Witness ==
    /\ Extracted
    /\ \E n \in DOMAIN call.ret.docs :
           LET metrics == SourcePoint(call.arg, call.ret.docs[n]).metrics
           IN  /\ DictHas(metrics, "value")
               /\ DictHas(metrics, "throughput_bops")
               /\ call.ret.docs[n].results.value = DictGet(metrics, "throughput_bops")
    /\ \E n \in DOMAIN call.ret.docs :
           LET metrics == SourcePoint(call.arg, call.ret.docs[n]).metrics
           IN  /\ \A k \in Range(PreferredNames) : ~DictHas(metrics, k)
               /\ ~IsNumeric(metrics.items[1][2])
               /\ call.ret.docs[n].results.point_metrics # None_

\* the cues of a unit, and the units in their priority order
UnitCues(unit) ==
    CASE unit = "seconds" -> {"seconds", "_sec"}
      [] unit = "bops" -> {"bops"}
      [] unit = "MB/s" -> {"mb_per_sec", "bandwidth"}
UnitsByPriority == <<"seconds", "bops", "MB/s">>
NameHasCueOf(metric_name, unit) ==
    \E cue \in UnitCues(unit) : Contains(Chars(metric_name), Chars(cue))
NameHasCue(metric_name) ==
    \E u \in Range(UnitsByPriority) : NameHasCueOf(metric_name, u)
\* the first unit, in priority order, a cue of which is in one of the names
UnitByPriority(names) ==
    IF \A k \in names : ~NameHasCue(k) THEN "unknown"
    ELSE LET best == CHOOSE n \in DOMAIN UnitsByPriority :
                        /\ \E k \in names : NameHasCueOf(k, UnitsByPriority[n])
                        /\ \A m \in 1..(n - 1) :
                               \A k \in names : ~NameHasCueOf(k, UnitsByPriority[m])
         IN  UnitsByPriority[best]
MetricNames(run) ==
    IF Truthy(run.metrics) THEN DictKeys(run.metrics) ELSE {}
\* the first name, in map order, that holds a cue of any unit
FirstNameWithCue(run) ==
    LET i == CHOOSE i \in DOMAIN run.metrics.items :
                 /\ NameHasCue(run.metrics.items[i][1])
                 /\ \A j \in 1..(i - 1) : ~NameHasCue(run.metrics.items[j][1])
    IN  run.metrics.items[i][1]

\* C10 as claimed: the unit of every extracted point follows cue priority over
\* the whole set of the run's metric names: 'seconds' if any name contains
\* 'seconds' or '_sec', otherwise 'bops' if any contains 'bops', otherwise
\* 'MB/s' if any contains 'mb_per_sec' or 'bandwidth', otherwise 'unknown',
\* whatever the order of the names in the metrics map.
C10_UnitByPriorityOverAllNames ==
    Extracted =>
        \A n \in DOMAIN call.ret.docs :
            call.ret.docs[n].results.unit =
                UnitByPriority(MetricNames(SourceRun(call.arg, call.ret.docs[n])))

\* C10 as amended: the unit of every extracted point is decided by the first
\* of the run's metric names, in map order, that contains any cue: cue
\* priority (seconds or _sec, then bops, then mb_per_sec or bandwidth) is
\* applied within that one name; 'unknown' when no name contains a cue.
C10_UnitOfFirstNameWithCue ==
    Extracted =>
        \A n \in DOMAIN call.ret.docs :
            LET run == SourceRun(call.arg, call.ret.docs[n])
            IN  call.ret.docs[n].results.unit =
                    IF \A k \in MetricNames(run) : ~NameHasCue(k) THEN "unknown"
                    ELSE UnitByPriority({FirstNameWithCue(run)})

C10_Witness ==
    /\ Extracted
    /\ \E n \in DOMAIN call.ret.docs :
           LET run == SourceRun(call.arg, call.ret.docs[n])
           IN  /\ call.ret.docs[n].results.unit = "bops"
               /\ UnitByPriority(MetricNames(run)) = "seconds"

\* the timeseries_id of the point p of document d, were its document_id id
TimeseriesIdOf(d, id, p) ==
    FormatTimeseriesId(id, d.results.runs.items[p[1]][1],
                       RunAt(d, p[1]).timeseries.items[p[2]][1])
\* document IDs other than the document's own
OtherDocumentIds(d) ==
    {PlaceholderId(name, at) : name \in {"coremark", "pyperf"}, at \in Timestamps}
    \ {d.metadata.document_id}

\* C11 as claimed: timeseries_id = '{document_id}_{run_key}_{sequence_key}' is
\* injective: the documents extracted from one document have pairwise distinct
\* timeseries_id values, and a point of a document with another document_id
\* never gets the timeseries_id of a point of this one; run keys are unique in
\* the document and sequence keys in their run, as keys of a map are.
C11_TimeseriesIdInjective ==
    Extracted =>
        /\ \A n, m \in DOMAIN call.ret.docs :
               n # m => call.ret.docs[n].metadata.timeseries_id
                            # call.ret.docs[m].metadata.timeseries_id
        /\ \A p, q \in PointsOf(call.arg) :
               \A other \in OtherDocumentIds(call.arg) :
                   TimeseriesIdOf(call.arg, call.arg.metadata.document_id, p)
                       # TimeseriesIdOf(call.arg, other, q)

\* every run of the document is a Run object
AllRunObjects(d) ==
    /\ IsDict(d.results.runs)
    /\ \A i \in RunIndexes(d) : RunAt(d, i).t = "Run"
\* the pattern 'sequence_<non-negative integer>' and the integer of a key in it
SequenceDigits(seq_key) ==
    SubSeq(Chars(seq_key), Len(Chars("sequence_")) + 1, Len(Chars(seq_key)))
MatchesSequencePattern(seq_key) ==
    /\ Len(Chars(seq_key)) > Len(Chars("sequence_"))
    /\ SubSeq(Chars(seq_key), 1, Len(Chars("sequence_"))) = Chars("sequence_")
    /\ \A i \in DOMAIN SequenceDigits(seq_key) : IsDigit(SequenceDigits(seq_key)[i])
\* the sequence key of the point an extracted document was made from
SourceSequenceKey(d, ts_doc) ==
    CHOOSE k \in DictKeys(SourceRun(d, ts_doc).timeseries) :
        FormatTimeseriesId(d.metadata.document_id, ts_doc.results.run.run_key, k)
            = ts_doc.metadata.timeseries_id

Validated == call.op = "validate" /\ call.ret.raised = "no"
\* the run keys of the document, and the <<run key, sequence key>> pairs of its
\* runs' timeseries
RunKeysOf(d) == IF Truthy(d.results.runs) THEN DictKeys(d.results.runs) ELSE {}
SequenceKeysOf(d) ==
    IF Truthy(d.results.runs)
    THEN UNION {{<<d.results.runs.items[i][1], k>> :
                   k \in IF Truthy(RunAt(d, i).timeseries)
                         THEN DictKeys(RunAt(d, i).timeseries) ELSE {}} :
                  i \in RunIndexes(d)}
    ELSE {}
HasPrefix(key, prefix) ==
    /\ Len(Chars(key)) >= Len(Chars(prefix))
    /\ SubSeq(Chars(key), 1, Len(Chars(prefix))) = Chars(prefix)
\* key is prefix followed by a non-negative integer
MatchesPattern(key, prefix) ==
    /\ HasPrefix(key, prefix)
    /\ Len(Chars(key)) > Len(Chars(prefix))
    /\ \A i \in (Len(Chars(prefix)) + 1)..Len(Chars(key)) : IsDigit(Chars(key)[i])
ErrorsOf(ret) == Range(ret.errors)

\* C13 as claimed: validate() returns is_valid = True only if every run key
\* is 'run_<non-negative integer>' and every sequence key of every run's
\* timeseries is 'sequence_<non-negative integer>'; a key outside these
\* patterns gives is_valid = False and an error naming that key.
C13_ValidateEnforcesKeyPatterns ==
    Validated =>
        /\ call.ret.is_valid =>
               /\ \A k \in RunKeysOf(call.arg) : MatchesPattern(k, "run_")
               /\ \A p \in SequenceKeysOf(call.arg) : MatchesPattern(p[2], "sequence_")
        /\ \A k \in RunKeysOf(call.arg) :
               ~MatchesPattern(k, "run_") =>
                   ~call.ret.is_valid /\ InvalidRunKey(k) \in ErrorsOf(call.ret)
        /\ \A p \in SequenceKeysOf(call.arg) :
               ~MatchesPattern(p[2], "sequence_") =>
                   /\ ~call.ret.is_valid
                   /\ InvalidSequenceKey(p[1], p[2]) \in ErrorsOf(call.ret)

\* C13 as amended: validate() returns is_valid = True only if every run key
\* starts with 'run_' and every sequence key of every run's timeseries starts
\* with 'sequence_'; a key without its prefix gives is_valid = False and an
\* error naming that key. What follows the prefix is not looked at.
C13_ValidateEnforcesKeyPrefixes ==
    Validated =>
        /\ call.ret.is_valid =>
               /\ \A k \in RunKeysOf(call.arg) : HasPrefix(k, "run_")
               /\ \A p \in SequenceKeysOf(call.arg) : HasPrefix(p[2], "sequence_")
        /\ \A k \in RunKeysOf(call.arg) :
               ~HasPrefix(k, "run_") =>
                   ~call.ret.is_valid /\ InvalidRunKey(k) \in ErrorsOf(call.ret)
        /\ \A p \in SequenceKeysOf(call.arg) :
               ~HasPrefix(p[2], "sequence_") =>
                   /\ ~call.ret.is_valid
                   /\ InvalidSequenceKey(p[1], p[2]) \in ErrorsOf(call.ret)

C13_Witness ==
    /\ Validated
    /\ ~call.ret.is_valid
    /\ RunKeysOf(call.arg) = {"1", "run_2"}
    /\ InvalidRunKey("1") \in ErrorsOf(call.ret)
    /\ InvalidSequenceKey("run_2", "seq_0") \in ErrorsOf(call.ret)
    /\ <<"run_2", "sequence_">> \in SequenceKeysOf(call.arg)

\* the violated checks of a document: required fields left empty, run keys and
\* sequence keys without their prefix
ViolatedChecks(d) ==
    {Required(f) : f \in
        {g \in {"metadata.document_id"} : ~Truthy(d.metadata.document_id)}
        \cup {g \in {"test.name"} : ~Truthy(d.test.name)}
        \cup {g \in {"results.status"} : ~Truthy(d.results.status)}}
    \cup {InvalidRunKey(k) : k \in {r \in RunKeysOf(d) : ~HasPrefix(r, "run_")}}
    \cup {InvalidSequenceKey(p[1], p[2]) :
            p \in {q \in SequenceKeysOf(d) : ~HasPrefix(q[2], "sequence_")}}

\* C14 as claimed: validate() never raises and never stops at the first
\* problem: for every document it returns (is_valid, errors), errors holding
\* one message for each violated check, and is_valid is True exactly when
\* errors is empty.
C14_ValidateNeverRaisesAndAccumulates ==
    call.op = "validate" =>
        /\ call.ret.raised = "no"
        /\ ErrorsOf(call.ret) = ViolatedChecks(call.arg)
        /\ Len(call.ret.errors) = Cardinality(ViolatedChecks(call.arg))
        /\ call.ret.is_valid <=> call.ret.errors = <<>>

\* ---- _make_request: what a call did so far
AttemptEvents == {i \in DOMAIN events : events[i].e = "attempt"}
SleepEvents == {i \in DOMAIN events : events[i].e = "sleep"}
ReceivedClientError(i) ==
    /\ events[i].e = "attempt"
    /\ events[i].reply.kind = "HTTPError"
    /\ 400 <= events[i].reply.code /\ events[i].reply.code <= 499
\* the attempt failed with a 5xx status or a connection error
FailedWithServerOrConnectionError(i) ==
    /\ events[i].e = "attempt"
    /\ \/ events[i].reply.kind = "URLError"
       \/ events[i].reply.kind = "HTTPError" /\ events[i].reply.code >= 500
SuccessfulAttempt(i) ==
    /\ events[i].e = "attempt"
    /\ Succeeds(exporter, events[i].reply)
RequestOver == request_pc \in {"returned", "raised"}

\* C19: in _make_request of either exporter, an attempt that receives an HTTP
\* 4xx status is the last thing the call does: it raises "Client error
\* <code>" at once, no sleep and no attempt follows it.
C19_ClientErrorsNeverRetried ==
    \A i \in DOMAIN events :
        ReceivedClientError(i) =>
            /\ i = Len(events)
            /\ request_pc = "raised"
            /\ outcome = RequestError("Client error", events[i].reply.code)

\* a 409 after a retried 503, with attempts still left, on the Horreum exporter
C19_Witness ==
    /\ exporter = "horreum"
    /\ request_pc = "raised"
    /\ Len(events) = 3
    /\ events[1].reply.code = 503
    /\ ReceivedClientError(3)
    /\ events[3].reply.code = 409
    /\ attempt < max_retries - 1

\* C20: _make_request makes at most max_retries attempts and returns at the
\* first attempt whose reply it could decode; it sleeps only between two
\* attempts; when every attempt failed with a 5xx status or a connection
\* error the finished call made exactly max_retries attempts and
\* max_retries - 1 sleeps and raised.
C20_BoundedRetry ==
    /\ Cardinality(AttemptEvents) <= max_retries
    /\ \A i \in DOMAIN events :
        SuccessfulAttempt(i) => i = Len(events) /\ request_pc = "returned"
    /\ request_pc = "returned" => events # <<>> /\ SuccessfulAttempt(Len(events))
    /\ \A i \in SleepEvents :
        /\ i > 1 /\ events[i - 1].e = "attempt"
        /\ IF i < Len(events) THEN events[i + 1].e = "attempt"
           ELSE request_pc = "attempt" /\ attempt < max_retries
    /\ (RequestOver /\ \A i \in AttemptEvents : FailedWithServerOrConnectionError(i)) =>
        /\ Cardinality(AttemptEvents) = max_retries
        /\ Cardinality(SleepEvents) = max_retries - 1
        /\ request_pc = "raised"

\* three attempts, a 5xx then connection errors, two sleeps between them
C20_Witness ==
    /\ max_retries = 3
    /\ request_pc = "raised"
    /\ Len(events) = 5
    /\ \A i \in AttemptEvents : FailedWithServerOrConnectionError(i)
    /\ events[1].reply.code = 500
    /\ events[5].reply.kind = "URLError"
    /\ Cardinality(SleepEvents) = 2

\* ---- the run: what the exporters were asked so far
CreateEvents == {i \in DOMAIN log : log[i].e = "create_document"}
TimeseriesEvents == {i \in DOMAIN log : log[i].e = "export_from_zathras_document"}
ParseEvents == {i \in DOMAIN log : log[i].e = "process"}
CreateEventsOf(id) == {i \in CreateEvents : log[i].id = id}

\* C15: the time series exporter is invoked for a document only right after
\* create_document for that same document returned 'created' in this run; a
\* document whose create_document returned 'duplicate' or raised gets no time
\* series request.
C15_TimeseriesOnlyAfterCreated ==
    /\ \A i \in TimeseriesEvents :
        /\ i > 1
        /\ log[i - 1].e = "create_document"
        /\ log[i - 1].at = log[i].at
        /\ log[i - 1].result = "created"
    /\ \A i \in CreateEvents :
        log[i].result \in {"duplicate", "raised"} =>
            \A j \in TimeseriesEvents : log[j].at # log[i].at

\* a document with points created and its time series exported, then found
\* duplicate, then failing: one time series request in all
C15_Witness ==
    /\ export_pc = "done"
    /\ Cardinality(TimeseriesEvents) = 1
    /\ \E i, j, k \in CreateEvents :
        /\ i < j /\ j < k
        /\ log[i].id = "a" /\ log[j].id = "a" /\ log[k].id = "a"
        /\ log[i].result = "created"
        /\ log[j].result = "duplicate"
        /\ log[k].result = "raised"

\* C16: when the same document ID is exported several times and the summary
\* index answers every one of the requests (201 when the ID is absent, 409
\* when it is present), the first create_document returns 'created', every
\* later one 'duplicate', and the index holds the summary written first.
C16_RerunIsIdempotent ==
    \A id \in {d.id : d \in ParsedDocuments} :
        (CreateEventsOf(id) # {} /\ \A i \in CreateEventsOf(id) : log[i].reply \in {"201", "409"}) =>
            LET first == CHOOSE i \in CreateEventsOf(id) : \A j \in CreateEventsOf(id) : i <= j
            IN  /\ log[first].result = "created"
                /\ \A j \in CreateEventsOf(id) : j # first => log[j].result = "duplicate"
                /\ {d \in store : d.id = id} = {[id |-> id, exported_at |-> log[first].at]}

\* the same ID exported three times, across two directories
C16_Witness ==
    /\ export_pc = "done"
    /\ Len(result_dirs) = 2
    /\ Cardinality(CreateEventsOf("a")) = 3
    /\ \A i \in CreateEventsOf("a") : log[i].reply \in {"201", "409"}
    /\ Cardinality({i \in CreateEventsOf("a") : log[i].result = "duplicate"}) = 2
    /\ \E i \in CreateEventsOf("a") : log[i].at[1] = 2

\* the files of the directories already gone through, and of the one at hand
FilesReached ==
    {p \in (DOMAIN result_dirs) \X (1..3) :
        /\ p[2] <= Len(result_dirs[p[1]])
        /\ \/ p[1] < di
           \/ p[1] = di /\ p[2] < fi
           \/ p[1] = di /\ p[2] = fi /\ export_pc = "document"}
AllFiles == {p \in (DOMAIN result_dirs) \X (1..3) : p[2] <= Len(result_dirs[p[1]])}
CreateAttempted(at) == \E i \in CreateEvents : log[i].at = at

FailedDocuments == {log[i].at : i \in {j \in DOMAIN log : log[j].result = "raised"}}
ProcessingFailures == {n \in DOMAIN stats.errors : stats.errors[n][2].prefix = "ProcessorError"}

\* C18 as claimed: every document whose export raised has a failure entry in
\* the statistics carrying its error, and stats.failed counts the failed
\* documents one by one (next to the files that failed in processing).
C18_FailurePerDocument ==
    export_pc \in {"file", "directory", "done", "exited"} =>
        /\ \A at \in FailedDocuments :
            \E n \in DOMAIN stats.errors : stats.errors[n][2].at = at
        /\ stats.failed = Cardinality(FailedDocuments) + Cardinality(ProcessingFailures)


\* ---- the run: what the statistics say of it
\* the files finished so far, each <<directory, file>>
FilesFinished ==
    {p \in (DOMAIN result_dirs) \X (1..3) :
        /\ p[2] <= Len(result_dirs[p[1]])
        /\ \/ p[1] < di
           \/ p[1] = di /\ p[2] < fi}
AtFileBoundary == export_pc \in {"file", "directory", "done", "exited"}
EventsOfFile(p) == {i \in DOMAIN log : log[i].at[1] = p[1] /\ log[i].at[2] = p[2] /\ log[i].at[4] = run_no}
\* the statistics hold a failure entry for the file
RecordedFailed(p) ==
    \E n \in DOMAIN stats.errors :
        /\ stats.errors[n][2].prefix # "SKIPPED"
        /\ stats.errors[n][2].at[1] = p[1] /\ stats.errors[n][2].at[2] = p[2]
        /\ stats.errors[n][2].at[4] = run_no
\* the request ran out of retries: a create without an answer or answered 503
\* on every attempt, a bulk request that bulk_export reports as failed
OutOfRetries(i) ==
    \/ log[i].e = "create_document" /\ log[i].reply \in {"503", "none"}
    \/ log[i].e = "export_from_zathras_document" /\ log[i].result = "failed"

\* C21 as claimed: when the summary create or the time series bulk request of
\* a document ran out of retries, the result file of that document is
\* recorded as failed, never as a success.
C21_ExhaustedRetriesRecordedFailed ==
    AtFileBoundary =>
        \A p \in FilesFinished :
            (\E i \in EventsOfFile(p) : OutOfRetries(i)) => RecordedFailed(p)

\* C22 as claimed: create_document returns 'duplicate' only when the index
\* answered the create request 409; a request answered with another 4xx, with
\* 503 on every attempt or not at all is raised, whatever its error body
\* holds.
C22_DuplicateOnlyForConflict ==
    \A i \in CreateEvents :
        /\ log[i].result = "duplicate" => log[i].reply \in {"409", "lost"}
        /\ log[i].reply \in {"400", "503", "none"} => log[i].result = "raised"

ExportedPoints(id) == IF id = "a" THEN PointCount ELSE 0
DuplicateEvents == {i \in CreateEvents : log[i].result = "duplicate"}
RaisedInFile(p) == \E i \in EventsOfFile(p) : log[i].result = "raised"
ProcessingFailed(p) ==
    \E n \in DOMAIN stats.errors :
        /\ stats.errors[n][2].prefix = "ProcessorError"
        /\ stats.errors[n][2].at[1] = p[1] /\ stats.errors[n][2].at[2] = p[2]
AllCreatedOrDuplicate(p) ==
    /\ \E i \in EventsOfFile(p) : log[i].e = "process"
    /\ \A i \in EventsOfFile(p) :
        log[i].e = "create_document" => log[i].result \in {"created", "duplicate"}
\* what the statistics count of duplicates and of failures
DuplicatesCountedApart ==
    /\ stats.documents_duplicates = Cardinality(DuplicateEvents)
    /\ stats.timeseries_skipped = PointCount * Cardinality({i \in DuplicateEvents : ExportedPoints(log[i].id) > 0})
    /\ stats.failed + stats.skipped = Len(stats.errors)
    /\ \A n \in DOMAIN stats.errors :
        stats.errors[n][2].prefix \in {"OpenSearch export failed", "Horreum export failed"} =>
            stats.errors[n][2].at \in FailedDocuments

C26_ExitStatusIffFailed ==
    export_pc = "exited" => (exit_status # 0 <=> stats.failed > 0)

\* C26 amended: main exits with status 1 exactly when a failure was recorded
\* or no result file was processed successfully, and with 0 otherwise.
C26_ExitStatusIffFailedOrNoSuccess ==
    export_pc = "exited" =>
        /\ exit_status \in {0, 1}
        /\ exit_status = 1 <=> (stats.failed > 0 \/ stats.successful = 0)

\* a run whose only file is of an unknown type: nothing failed, exit 1
C26_Witness ==
    /\ export_pc = "exited"
    /\ stats.failed = 0
    /\ stats.skipped = 1
    /\ stats.total = 1
    /\ exit_status = 1

\* C28 as claimed: create_document returns 'duplicate' for an ID only if the
\* index held that ID before the call began, also when an attempt of the call
\* was applied with its answer lost and the request was retried.
C28_OwnWriteNeverDuplicate ==
    \A i \in CreateEvents :
        (log[i].result = "duplicate" /\ log[i].reply # "400") =>
            \E j \in CreateEvents :
                j < i /\ log[j].id = log[i].id /\ log[j].reply \in {"201", "lost"}

\* C29: whenever a result file has been handled, stats.total equals
\* successful + failed + skipped and the number of files handled; a file
\* found without a registered test type is one of the skipped, one whose
\* processing or export raised one of the failed, any other one of the
\* successful, an empty list of documents included.
C29_StatsAccounting ==
    /\ AtFileBoundary =>
        /\ stats.total = stats.successful + stats.failed + stats.skipped
        /\ stats.total = Cardinality(FilesFinished)
        /\ stats.skipped = Cardinality({p \in FilesFinished : result_dirs[p[1]][p[2]] = "unknown"})
        /\ stats.failed = Cardinality({p \in FilesFinished : RecordedFailed(p)})
        /\ stats.successful = stats.processed_tests["coremark"] + stats.processed_tests["pyperf"]
        /\ \A p \in FilesFinished :
            RecordedFailed(p) <=> (RaisedInFile(p) \/ ProcessingFailed(p))
    /\ export_pc = "document" =>
        stats.total = stats.successful + stats.failed + stats.skipped + 1

\* four files: an empty pyperf result, an unknown type, a processor error and
\* an export error
C29_Witness ==
    /\ export_pc = "exited"
    /\ result_dirs = <<<<"pyperf", "unknown">>, <<"coremark", "pyperf">>>>
    /\ stats.total = 4
    /\ stats.successful = 1 /\ stats.skipped = 1 /\ stats.failed = 2
    /\ \E i \in ParseEvents : log[i].at = <<1, 1, 0, 1>> /\ log[i].reply = <<>>
    /\ ProcessingFailed(<<2, 1>>)
    /\ RaisedInFile(<<2, 2>>)


EventsOfRun == {i \in DOMAIN log : log[i].at[4] = run_no}
\* both indexes answered every request of the run, each at its first attempt
EveryRequestAnswered ==
    \A i \in EventsOfRun :
        /\ log[i].e = "create_document" => log[i].reply \in {"201", "409"}
        /\ log[i].e = "export_from_zathras_document" => log[i].result = "indexed"
\* the documents the result files yielded in the run
DocumentsOfRun ==
    {log[i].reply[x] : <<i, x>> \in {p \in EventsOfRun \X (1..MaxExports) :
                                         log[p[1]].e = "process" /\ p[2] <= Len(log[p[1]].reply)}}

\* C27 as claimed: when a run of main over unchanged result files completes
\* with both indexes answering every request, every document of the files
\* has its summary in the summary index exactly once and every one of its
\* points in the time series index, whatever failed in the runs before.
C27_RerunsConverge ==
    (export_pc = "exited" /\ args.opensearch /\ stats.failed = 0 /\ EveryRequestAnswered) =>
        \A d \in DocumentsOfRun :
            /\ Cardinality({s \in store : s.id = d.id}) = 1
            /\ \A n \in 1..d.points : <<d.id, n>> \in ts_store


\* ---- export_timeseries_bulk: the batches
\* the documents of the requests made so far, in the order of the requests
RECURSIVE Submitted(_)
Submitted(requests) ==
    IF requests = <<>> THEN <<>>
    ELSE Submitted(SubSeq(requests, 1, Len(requests) - 1)) \o requests[Len(requests)].docs
CeilDiv(n, d) == (n + d - 1) \div d

\* C30: export_timeseries_bulk of n documents with batch_size >= 1 puts every
\* document into exactly one bulk request, in list order, the requests holding
\* batch_size documents each but for a shorter last one, ceil(n / batch_size)
\* requests in all; a failed request does not keep the later ones from being
\* made; the statistics returned have total = n, and successful + failed =
\* total when every response had an item for every document of its request.
C30_BatchesCoverEveryDocumentOnce ==
    bulk # None_ =>
        LET n == Len(bulk.ts_docs)
            done == IF bulk.i < n THEN bulk.i ELSE n
        IN  /\ Submitted(bulk.requests) = SubSeq(bulk.ts_docs, 1, done)
            /\ Len(bulk.requests) = CeilDiv(done, bulk.batch_size)
            /\ \A r \in DOMAIN bulk.requests :
                /\ Len(bulk.requests[r].docs) \in 1..bulk.batch_size
                /\ r < Len(bulk.requests) => Len(bulk.requests[r].docs) = bulk.batch_size
            /\ bulk.pc = "returned" =>
                /\ done = n
                /\ \A d \in 1..n :
                    Cardinality({p \in (DOMAIN bulk.requests) \X (1..bulk.batch_size) :
                                    /\ p[2] <= Len(bulk.requests[p[1]].docs)
                                    /\ bulk.requests[p[1]].docs[p[2]] = bulk.ts_docs[d]}) = 1
                /\ bulk.result.total = n
                /\ bulk.itemwise => bulk.result.successful + bulk.result.failed = bulk.result.total

\* four documents in batches of three: the first request fails, the second
\* is made and its one document indexed
C30_Witness ==
    /\ bulk # None_
    /\ bulk.pc = "returned"
    /\ Len(bulk.ts_docs) = 4
    /\ bulk.batch_size = 3
    /\ Len(bulk.requests) = 2
    /\ bulk.requests[1].answer = "raised"
    /\ bulk.requests[2] = [docs |-> <<4>>, answer |-> "items"]
    /\ bulk.result = [total |-> 4, successful |-> 1, failed |-> 3,
                      errors |-> <<"Request failed after attempts">>]


\* ---- the steps taken on each document of a result file
\* where in the trace the step was taken on document d without raising
StepsAt(name, d) ==
    {i \in DOMAIN steps.trace :
        steps.trace[i].step = name /\ steps.trace[i].doc = d /\ steps.trace[i].result # "raised"}
ExportAttempts(d) ==
    {i \in DOMAIN steps.trace :
        /\ steps.trace[i].step \in {"to_json", "create_document", "export_zathras_document"}
        /\ steps.trace[i].doc = d}
Before(S, T) == \A j \in T : \E i \in S : i < j

\* C25: for every document, the summary projection is built before the hash
\* is computed, the hash before document_id is assigned, document_id is
\* assigned once and never again, and all this before the first attempt to
\* export the document: its JSON file, create_document, the Horreum export.
C25_PerDocumentOrdering ==
    steps # None_ =>
        \A d \in 1..steps.n :
            /\ Before(StepsAt("ZathrasDocument", d), StepsAt("to_dict_summary_only", d))
            /\ Before(StepsAt("to_dict_summary_only", d), StepsAt("sha256", d))
            /\ Before(StepsAt("sha256", d), StepsAt("document_id", d))
            /\ Cardinality(StepsAt("document_id", d)) <= 1
            /\ Before(StepsAt("document_id", d), ExportAttempts(d))
            /\ ExportAttempts(d) # {} => Cardinality(StepsAt("document_id", d)) = 1

\* two pyperf documents, each written, sent to OpenSearch and to Horreum
C25_Witness ==
    /\ steps # None_
    /\ steps.pc = "recorded"
    /\ steps.n = 2
    /\ steps.args = [output_json |-> TRUE, opensearch |-> TRUE, horreum |-> TRUE]
    /\ \A d \in 1..2 : Cardinality(ExportAttempts(d)) = 3
    /\ \E i \in ExportAttempts(1) : steps.trace[i].result = "raised"

====
